---- MODULE Spec2Model ----
(***************************************************************************)
(* A model of oh-my-logo's caching and gradient-colouring core:            *)
(*   - LRUCache (src/src/cache/LRUCache.ts): key map + doubly linked       *)
(*     recency list + hit/miss counters;                                   *)
(*   - CacheManager's figlet, gradient and palette caches;                 *)
(*   - renderLogo and its three colouring strategies (src/src/renderer.ts);*)
(*   - resolvePalette (src/src/palettes.ts).                               *)
(*                                                                         *)
(* Strings are TLA+ strings and are concatenated with \o, so that cache    *)
(* keys are computed the way the template literals and join(',') compute   *)
(* them.  A glyph block is the sequence of its lines (asciiArt.split('\n') *)
(* and join('\n') are the two directions of that representation; the empty *)
(* string is the block of one empty line), and a line is the sequence of   *)
(* its characters.                                                         *)
(*                                                                         *)
(* CacheNode.timestamp and CacheNode.accessCount are written by get/set    *)
(* but read only by getStats().oldestEntry/newestEntry and getHotKeys();   *)
(* they are left out of the node record.                                   *)
(***************************************************************************)
EXTENDS Integers, Sequences, FiniteSets, TLC

VARIABLES
  lru,        \* a stand-alone LRUCache<string> under test
  last,       \* the last operation on lru: [op, key, value, ret, evicted, after, before]
  gets,       \* number of get calls on lru since construction or the last clear
  scen,       \* the insertion scenario since construction (see ScenSet, ScenGet)
  nops,       \* number of operations performed on lru
  pre,        \* lru as it was when the last operation was called
  figletCache,    \* cacheManager.figletCache
  gradientCache,  \* cacheManager.gradientCache
  rin,        \* the arguments of the last renderLogo call
  rout,       \* its outcome: [status, message, font, out, art, calls], whether the
              \* pair was in generated and the gradient cache's keys, at the call
  seen,       \* every cache key computed so far, with the inputs it was computed from
  nrender,    \* number of renderLogo calls
  generated,  \* the <<text, font>> pairs a call generated a block for that is still cached
  paletteCache,   \* cacheManager.paletteCache
  heap,       \* the arrays allocated by resolvePalette: heap[id] is the content of array id
  held,       \* the ids of the arrays resolvePalette has returned to its callers
  pin,        \* the argument of the last resolvePalette call
  pret,       \* what it returned: NULL or [ref, value], value being the content then
  npal,       \* number of palette operations
  cin,        \* the argument of the last resolveColors call: <<"name", n>> or <<"ref", id>>
  cret,       \* its outcome: [status, ret, value, message]
  aopt,       \* the options an AsciiCache was constructed with
  ac,         \* that AsciiCache: [store, opts, hits, misses]
  now,        \* the clock, in ticks
  atouch,     \* for each key with an entry: when it was last set or read with a hit
  alast,      \* the last operation on ac: [op, key, value, ret, counted, age, expect]
  naops,      \* number of operations performed on ac
  inkCache,   \* cacheManager.inkCache
  promises,   \* the promises renderInkLogo has made: [state, shown, mounted, unmounts, timer, args, cleared]
  ilast,      \* the last renderInkLogo call: [key, promise, rendered, threw, settled, start]
  nink,       \* number of renderInkLogo calls
  stdout,     \* what has been written to process.stdout by the filled rendering path
  cpc,        \* where the CLI process is: "parse", "awaitFilled", "exitPending", "exited"
  cargs,      \* the command line of the invocation
  cnow,       \* the process's clock, in ms
  ctimers,    \* the timers scheduled in the process: <<name, due>>
  cexit,      \* the exit code, NoCode while running
  cout,       \* what the invocation did: [done, by, fired]
  nmem,       \* number of operations made on the CacheManager's caches
  mcleared,   \* the cache the last memory check cleared, NULL if none
  fin,        \* renderFilled: the last call's [text, palette, letterSpacing]
  fret,       \* renderFilled: what it did: [status, message, promise]
  nfill,      \* number of renderFilled calls made
  env,        \* process.env: [size, ttl], each UNDEFINED or a string
  cfg,        \* what getCacheConfig returned: <<maxSize, maxAge>>, NULL before
  colorEnv,   \* process.env as shouldUseColor reads it
  isTTY,      \* process.stdout.isTTY: "true", "false" or UNDEFINED
  colorDetectionCache,  \* NULL or <<result, timestamp>>
  dateNow,    \* Date.now()
  ulast,      \* the last call of shouldUseColor: [seq, variant, options, result]
  ncolor,     \* number of steps made around shouldUseColor
  touched,    \* lru: for each key, the number of the operation that last set it
              \* or read it with a hit, 0 when the cache has no entry for it
  dlines,     \* two lines of one glyph block: [palette, lineCount, index1, index2]
  dkeys,      \* their diagonal cache keys and shifted palettes:
              \* [key1, key2, shifted1, shifted2], NULL before
  accessCount,  \* lru: node.accessCount of each key, 0 when it has no entry
  wlast       \* the call of a withCache wrapper, if that was the last step:
              \* [seq, key, result, executed, ret]

lruVars == <<lru, last, gets, scen, nops, pre, touched, accessCount>>
renderVars == <<figletCache, gradientCache, rin, rout, seen, nrender, generated>>
paletteVars == <<paletteCache, heap, held, pin, pret, npal, cin, cret>>
asciiVars == <<aopt, ac, now, atouch, alast, naops, wlast>>
inkVars == <<inkCache, promises, ilast, nink, stdout>>
cliVars == <<cpc, cargs, cnow, ctimers, cexit, cout>>
memVars == <<nmem, mcleared>>
filledVars == <<fin, fret, nfill>>
configVars == <<env, cfg>>
shiftVars == <<dlines, dkeys>>
colorVars == <<colorEnv, isTTY, colorDetectionCache, dateNow, ulast, ncolor>>

\* what the operations of one component leave alone
otherThanLru ==
  <<renderVars, paletteVars, asciiVars, inkVars, cliVars, memVars, filledVars,
    configVars, colorVars, shiftVars>>
otherThanRender ==
  <<lruVars, paletteVars, asciiVars, inkVars, cliVars, memVars, filledVars,
    configVars, colorVars, shiftVars>>
otherThanPalette ==
  <<lruVars, renderVars, asciiVars, inkVars, cliVars, memVars, filledVars,
    configVars, colorVars, shiftVars>>
otherThanAscii ==
  <<lruVars, renderVars, paletteVars, inkVars, cliVars, memVars, filledVars,
    configVars, colorVars, shiftVars>>
otherThanInk ==
  <<lruVars, renderVars, paletteVars, asciiVars, cliVars, memVars, filledVars,
    configVars, colorVars, shiftVars>>
otherThanCli ==
  <<lruVars, renderVars, paletteVars, asciiVars, inkVars, memVars, filledVars,
    configVars, colorVars, shiftVars>>
\* the CacheManager works on the four caches and leaves the rest alone
otherThanManager ==
  <<lruVars, rin, rout, seen, nrender, generated, heap, held, pin, pret, npal, cin, cret,
    asciiVars, promises, ilast, nink, stdout, cliVars, filledVars, configVars, colorVars,
    shiftVars>>
\* renderFilled works on the palette cache and the Ink renderer
otherThanFilled ==
  <<lruVars, renderVars, held, pin, pret, npal, cin, cret, asciiVars, cliVars, memVars,
    configVars, colorVars, shiftVars>>
otherThanConfig ==
  <<lruVars, renderVars, paletteVars, asciiVars, inkVars, cliVars, memVars, filledVars,
    colorVars, shiftVars>>
otherThanColor ==
  <<lruVars, renderVars, paletteVars, asciiVars, inkVars, cliVars, memVars, filledVars,
    configVars, shiftVars>>
otherThanShift ==
  <<lruVars, renderVars, paletteVars, asciiVars, inkVars, cliVars, memVars, filledVars,
    configVars, colorVars>>

(***************************************************************************)
(* Bounds of the model.                                                    *)
(***************************************************************************)
MaxCap == 3        \* lru.maxSize is drawn from 1..MaxCap
MaxOps == 5        \* counted operations on lru
MaxRenders == 2    \* renderLogo calls
MaxPaletteOps == 4 \* resolvePalette calls, writes to returned arrays, cache clears
MaxAge == 2        \* an AsciiCache's maxAge option is drawn from 1..MaxAge ticks
MaxTime == 4       \* the clock stops at MaxTime
MaxAsciiOps == 3   \* operations on the AsciiCache
MaxInk == 3        \* calls of renderInkLogo
MaxMemOps == 4     \* gets and sets on the CacheManager's caches
MaxFilled == 3     \* calls of renderFilled
MaxColorOps == 4   \* steps around shouldUseColor: calls, changes of environment, time
MaxLines == 401    \* lines of the tallest glyph block of a diagonal render

\* CacheManager's default configuration
figletCacheSize == 500
gradientCacheSize == 200
paletteCacheSize == 50
inkCacheSize == 100

\* the delays of the timers, in ms
InkSettleMs == 50
ExitDelayMs == 100
WatchdogMs == 5000
MonitorMs == 30000

Keys   == {"k1", "k2", "k3"}
Values == {"v1", "v2"}

NULL == "<null>"   \* JavaScript null / a missing link

(***************************************************************************)
(* LRUCache                                                                *)
(***************************************************************************)
EmptyMap == [x \in {} |-> NULL]

NewLRU(maxSize) ==
  [cache |-> EmptyMap, head |-> NULL, tail |-> NULL,
   maxSize |-> maxSize, hits |-> 0, misses |-> 0]

MapHas(c, k) == k \in DOMAIN c.cache

MapSet(c, k, node) ==
  [c EXCEPT !.cache = [x \in (DOMAIN c.cache) \cup {k} |->
                          IF x = k THEN node ELSE c.cache[x]]]

MapDelete(c, k) ==
  [c EXCEPT !.cache = [x \in (DOMAIN c.cache) \ {k} |-> c.cache[x]]]

MapSize(c) == Cardinality(DOMAIN c.cache)

\* removeNode that leaves tail where it was
removeNodeKeepTail(c, k) ==
  LET node == c.cache[k]
      c1 == IF node.prev # NULL
            THEN [c EXCEPT !.cache[node.prev].next = node.next]
            ELSE [c EXCEPT !.head = node.next]
  IN  IF node.next # NULL
      THEN [c1 EXCEPT !.cache[node.next].prev = node.prev]
      ELSE c1

removeNode(c, k) ==
  LET node == c.cache[k]
      c1 == IF node.prev # NULL
            THEN [c EXCEPT !.cache[node.prev].next = node.next]
            ELSE [c EXCEPT !.head = node.next]
  IN  IF node.next # NULL
      THEN [c1 EXCEPT !.cache[node.next].prev = node.prev]
      ELSE [c1 EXCEPT !.tail = node.prev]

addToFront(c, k) ==
  LET c1 == [c EXCEPT !.cache[k].next = c.head, !.cache[k].prev = NULL]
      c2 == IF c.head # NULL THEN [c1 EXCEPT !.cache[c.head].prev = k] ELSE c1
      c3 == [c2 EXCEPT !.head = k]
  IN  IF c3.tail = NULL THEN [c3 EXCEPT !.tail = k] ELSE c3

moveToFront(c, k) ==
  IF k = c.head THEN c ELSE addToFront(removeNode(c, k), k)

evictHead(c) ==
  IF c.head = NULL THEN c
  ELSE LET victim == c.head IN MapDelete(removeNode(c, victim), victim)

evictLRU(c) ==
  IF c.tail = NULL THEN c
  ELSE LET victim == c.tail IN MapDelete(removeNode(c, victim), victim)

\* get: [c |-> the cache afterwards, ret |-> the value returned]
LRUGetNoPromote(c, k) ==
  IF ~MapHas(c, k)
  THEN [c |-> [c EXCEPT !.misses = @ + 1], ret |-> NULL]
  ELSE [c |-> [c EXCEPT !.hits = @ + 1], ret |-> c.cache[k].value]

\* get whose miss counts as a hit as well
LRUGetMissCountsHit(c, k) ==
  IF ~MapHas(c, k)
  THEN [c |-> [c EXCEPT !.misses = @ + 1, !.hits = @ + 1], ret |-> NULL]
  ELSE [c |-> moveToFront([c EXCEPT !.hits = @ + 1], k), ret |-> c.cache[k].value]

LRUGet(c, k) ==
  IF ~MapHas(c, k)
  THEN [c |-> [c EXCEPT !.misses = @ + 1], ret |-> NULL]
  ELSE [c |-> moveToFront([c EXCEPT !.hits = @ + 1], k), ret |-> c.cache[k].value]

LRUSetNoEvict(c, k, v) ==
  IF MapHas(c, k)
  THEN moveToFront([c EXCEPT !.cache[k].value = v], k)
  ELSE addToFront(MapSet(c, k, [value |-> v, prev |-> NULL, next |-> NULL]), k)

LRUSetNoPromote(c, k, v) ==
  IF MapHas(c, k)
  THEN [c EXCEPT !.cache[k].value = v]
  ELSE LET c1 == addToFront(MapSet(c, k, [value |-> v, prev |-> NULL, next |-> NULL]), k)
       IN  IF MapSize(c1) > c1.maxSize THEN evictLRU(c1) ELSE c1

LRUSetKeepOld(c, k, v) ==
  IF MapHas(c, k)
  THEN moveToFront(c, k)
  ELSE LET c1 == addToFront(MapSet(c, k, [value |-> v, prev |-> NULL, next |-> NULL]), k)
       IN  IF MapSize(c1) > c1.maxSize THEN evictLRU(c1) ELSE c1

LRUSet(c, k, v) ==
  IF MapHas(c, k)
  THEN moveToFront([c EXCEPT !.cache[k].value = v], k)
  ELSE LET c1 == addToFront(MapSet(c, k, [value |-> v, prev |-> NULL, next |-> NULL]), k)
       IN  IF MapSize(c1) > c1.maxSize THEN evictLRU(c1) ELSE c1

LRUHas(c, k) == MapHas(c, k)

\* delete that leaves the list as it is
LRUDeleteKeepLinks(c, k) ==
  IF ~MapHas(c, k)
  THEN [c |-> c, ret |-> FALSE]
  ELSE [c |-> MapDelete(c, k), ret |-> TRUE]

\* delete: [c |-> the cache afterwards, ret |-> whether something was removed]
LRUDelete(c, k) ==
  IF ~MapHas(c, k)
  THEN [c |-> c, ret |-> FALSE]
  ELSE [c |-> MapDelete(removeNode(c, k), k), ret |-> TRUE]

LRUClearKeepCounters(c) ==
  [c EXCEPT !.cache = EmptyMap, !.head = NULL, !.tail = NULL]

LRUClear(c) ==
  [c EXCEPT !.cache = EmptyMap, !.head = NULL, !.tail = NULL,
            !.hits = 0, !.misses = 0]

\* hitRate is the fraction num/den (JavaScript computes the quotient as a double)
Fraction(n, d) == [num |-> n, den |-> d]
Zero == Fraction(0, 1)

LRUGetStatsBad(c) ==
  [size |-> MapSize(c), maxSize |-> c.maxSize, hits |-> c.hits, misses |-> c.misses,
   hitRate |-> IF c.hits + c.misses > 0
               THEN Fraction(c.hits, c.misses) ELSE Zero]

LRUGetStats(c) ==
  [size |-> MapSize(c), maxSize |-> c.maxSize, hits |-> c.hits, misses |-> c.misses,
   hitRate |-> IF c.hits + c.misses > 0
               THEN Fraction(c.hits, c.hits + c.misses) ELSE Zero]

(***************************************************************************)
(* Collaborators of the renderer.  figlet.textSync and gradient-string are *)
(* external and deterministic: the glyph generator is the table FigletArt, *)
(* a ramp function is identified by the stop list it was built from, and   *)
(* what a ramp returns is the uninterpreted term <<"colored", stops, line>>*)
(* (or <<"multiline", stops, block>> for its multiline mode).              *)
(***************************************************************************)
Whitespace == {" ", "\t"}

EmptyString == << <<>> >>        \* '' : one line without characters

Palettes == { <<"A", "B", "C">>, <<"A,B", "C">>, <<"A", "B", "C:0.00">> }
Directions == {"vertical", "horizontal", "diagonal"}
\* the (text, font) pairs that renderLogo is called with, and those among
\* them on which the glyph generator throws
Requests == { <<"", "c">>, <<"a", "c">>, <<"a:b", "c">>, <<"a", "b:c">> }
FailingRequests == { <<"a", "nofont">>, <<"a", "Bad">> }
\* the calls of renderLogo: <<text, font>>, palette, direction.  The request
\* and the palette whose cache keys coincide with another's are each used
\* with that other one.
Calls ==
  ({ <<"", "c">>, <<"a", "c">>, <<"a:b", "c">> }
      \X { <<"A", "B", "C">>, <<"A", "B", "C:0.00">> } \X Directions)
    \cup ({ <<"a", "b:c">> } \X { <<"A", "B", "C">> } \X Directions)
    \cup ({ <<"a", "c">> } \X { <<"A,B", "C">> } \X Directions)
    \cup (FailingRequests \X { <<"A", "B", "C">> } \X Directions)
    \cup ({ <<"", "c">>, <<"a", "c">> } \X { <<>> } \X Directions)
    \cup { << <<"a", "nofont">>, <<>>, "vertical" >> }

FigletArt(text, font) ==
  CASE text = ""                    -> EmptyString
    [] text = "a"   /\ font = "c"   -> << <<"#">>, <<" ">>, <<"#", "#">>, <<>> >>
    [] text = "a:b" /\ font = "c"   -> << <<"@">>, <<>>, <<"@", " ">> >>
    [] text = "a"   /\ font = "b:c" -> << <<" ", "\t">>, <<"%">> >>
    [] OTHER                        -> << <<"&">> >>

\* figlet.textSync: [err |-> "none" | the thrown error's message, art |-> the block]
\* An unknown font fails when its file under figlet's fonts directory is
\* opened; "Bad" stands for a generator failing with the message the tests use.
textSync(text, font) ==
  CASE font = "nofont" ->
         [err |-> "ENOENT: no such file or directory, open 'figlet/fonts/nofont.flf'",
          art |-> EmptyString]
    [] font = "Bad" ->
         [err |-> "Font \"Bad\" not found", art |-> EmptyString]
    [] OTHER -> [err |-> "none", art |-> FigletArt(text, font)]

\* the gradient factory: a ramp, or <<"throw", message>> when no ramp can be
\* built from the stops
gradient(stops) ==
  IF stops = <<>> THEN <<"throw", "Invalid number of stops (< 2)">>
  ELSE <<"gradient", stops>>
ApplyRamp(fn, line) == <<"colored", fn[2], line>>
\* a ramp has no character to colour in the empty string
ApplyMultiline(fn, art) ==
  IF art = EmptyString THEN EmptyString ELSE <<"multiline", fn[2], art>>

(***************************************************************************)
(* Strings                                                                 *)
(***************************************************************************)
\* String.prototype.includes
Includes(s, sub) ==
  \E i \in 1..(Len(s) - Len(sub) + 1) : SubSeq(s, i, i + Len(sub) - 1) = sub

RECURSIVE Join(_, _)
Join(list, sep) ==
  IF Len(list) = 0 THEN ""
  ELSE IF Len(list) = 1 THEN list[1]
  ELSE list[1] \o sep \o Join(Tail(list), sep)

DigitChars == <<"0", "1", "2", "3", "4", "5", "6", "7", "8", "9">>

RECURSIVE NatToString(_)
NatToString(n) ==
  IF n < 10 THEN DigitChars[n + 1]
  ELSE NatToString(n \div 10) \o DigitChars[(n % 10) + 1]

\* (num/den).toFixed(2) for num >= 0, den > 0: the nearest hundredth, halves
\* rounded up, written with two decimals.
Hundredths(num, den) == (200 * num + den) \div (2 * den)

ToFixed2(num, den) ==
  LET h == Hundredths(num, den)
  IN  NatToString(h \div 100) \o "." \o DigitChars[((h % 100) \div 10) + 1]
                              \o DigitChars[(h % 10) + 1]

IsBlankEmptyOnly(line) == line = <<>>

IsBlankNever(line) == FALSE

\* line.trim() === ''
IsBlank(line) == \A i \in 1..Len(line) : line[i] \in Whitespace

(***************************************************************************)
(* renderer.ts                                                             *)
(***************************************************************************)
getFigletCacheKey(text, font) == text \o ":" \o font

getGradientCacheKey(palette) == Join(palette, ",")

\* the shift (index / lineCount) * palette.length is the fraction num/den
getDiagonalCacheKey(palette, num, den) ==
  Join(palette, ",") \o ":" \o ToFixed2(num, den)

\* !asciiArt
Falsy(v) == v = NULL \/ v = EmptyString

\* A renderLogo call is followed through both caches, the calls it makes to
\* the collaborators in order (<<kind, argument..., row>>, NoRow outside the
\* diagonal loop) and the cache keys it computes: <<cache, key, origin>>,
\* where origin = <<kind, inputs, num, den>> names the inputs the key was
\* computed from (num/den is the diagonal shift, 0/1 otherwise).
NoRow == 0 - 1

processHorizontalGradientAll(asciiArt, gradientFn) ==
  [out   |-> [i \in 1..Len(asciiArt) |-> ApplyRamp(gradientFn, asciiArt[i])],
   calls |-> [i \in 1..Len(asciiArt) |-> <<"ramp", gradientFn[2], asciiArt[i], NoRow>>]]

\* lines.map(line => line.trim() === '' ? line : gradientFn(line))
processHorizontalGradient(asciiArt, gradientFn) ==
  [out   |-> [i \in 1..Len(asciiArt) |->
                IF IsBlank(asciiArt[i]) THEN asciiArt[i]
                ELSE ApplyRamp(gradientFn, asciiArt[i])],
   calls |-> [i \in 1..Len(SelectSeq(asciiArt, LAMBDA l : ~IsBlank(l))) |->
                LET l == SelectSeq(asciiArt, LAMBDA x : ~IsBlank(x))[i]
                IN  <<"ramp", gradientFn[2], l, NoRow>>]]

ShiftedPaletteByIndex(palette, index, lineCount) ==
  [j \in 1..Len(palette) |-> palette[(((j - 1) + index) % Len(palette)) + 1]]

\* palette.map((_, colorIndex) => palette[Math.floor(colorIndex + shift) % palette.length])
ShiftedPalette(palette, index, lineCount) ==
  [j \in 1..Len(palette) |->
     palette[(((j - 1) + ((index * Len(palette)) \div lineCount)) % Len(palette)) + 1]]

\* One iteration of processDiagonalGradient's loop, from line `index` on.
\* st = [gc, out, calls, keys]
RECURSIVE DiagonalLoop(_, _, _, _)
DiagonalLoop(st, lines, palette, index) ==
  IF index >= Len(lines) THEN st
  ELSE
    LET line == lines[index + 1] IN
    IF IsBlank(line)
    THEN DiagonalLoop([st EXCEPT !.out = Append(@, line)], lines, palette, index + 1)
    ELSE
      LET num == index * Len(palette)
          den == Len(lines)
          diagonalKey == getDiagonalCacheKey(palette, num, den)
          g == LRUGet(st.gc, diagonalKey)
          miss == g.ret = NULL
          lineGradient == IF miss THEN gradient(ShiftedPalette(palette, index, den))
                          ELSE g.ret
          gc2 == IF miss THEN LRUSet(g.c, diagonalKey, lineGradient) ELSE g.c
          built == IF miss THEN << <<"gradient", lineGradient[2], index>> >> ELSE <<>>
      IN  DiagonalLoop(
            [gc    |-> gc2,
             out   |-> Append(st.out, ApplyRamp(lineGradient, line)),
             calls |-> st.calls \o built \o << <<"ramp", lineGradient[2], line, index>> >>,
             keys  |-> st.keys \cup {<<"gradient", diagonalKey, <<"diagonal", palette, num, den>>>>}],
            lines, palette, index + 1)

processDiagonalGradientUncached(gc, asciiArt, palette) ==
  DiagonalLoop([gc |-> NewLRU(gc.maxSize), out |-> <<>>, calls |-> <<>>, keys |-> {}],
               asciiArt, palette, 0)

processDiagonalGradient(gc, asciiArt, palette) ==
  DiagonalLoop([gc |-> gc, out |-> <<>>, calls |-> <<>>, keys |-> {}], asciiArt, palette, 0)

MentionsNothing(message) == FALSE

\* error.message.includes('font')
MentionsFont(message) == Includes(message, "font")

\* a catch clause that also empties both caches
CatchAndClear(fc, gc, message, font, calls, keys) ==
  [fc |-> LRUClear(fc), gc |-> LRUClear(gc),
   status  |-> IF Includes(message, "font") THEN "FontError" ELSE "Error",
   message |-> IF Includes(message, "font") THEN "Font not found: " \o font ELSE message,
   font    |-> IF Includes(message, "font") THEN font ELSE NULL,
   out |-> <<>>, art |-> EmptyString, calls |-> calls, keys |-> keys]

\* renderLogo's catch clause on an Error with this message: FontError(font),
\* or the error itself thrown again
Catch(fc, gc, message, font, calls, keys) ==
  [fc |-> fc, gc |-> gc,
   status  |-> IF MentionsFont(message) THEN "FontError" ELSE "Error",
   message |-> IF MentionsFont(message) THEN "Font not found: " \o font ELSE message,
   font    |-> IF MentionsFont(message) THEN font ELSE NULL,
   out |-> <<>>, art |-> EmptyString, calls |-> calls, keys |-> keys]

\* renderLogo: [fc, gc, status, message, font, out, art, calls, keys]; art is
\* the glyph block that was coloured
renderLogo(fc, gc, text, palette, font, direction) ==
  LET figletKey == getFigletCacheKey(text, font)
      g1 == LRUGet(fc, figletKey)
      miss1 == Falsy(g1.ret)
      fig == textSync(text, font)
      keys1 == {<<"figlet", figletKey, <<"glyphs", <<text, font>>, 0, 1>>>>}
      calls1 == IF miss1 THEN << <<"figlet", text, font>> >> ELSE <<>>
  IN
  IF miss1 /\ fig.err # "none"
  THEN Catch(g1.c, gc, fig.err, font, calls1, keys1)
  ELSE
    LET asciiArt == IF miss1 THEN fig.art ELSE g1.ret
        fc2 == IF miss1 THEN LRUSet(g1.c, figletKey, asciiArt) ELSE g1.c
        gradientKey == getGradientCacheKey(palette)
        g2 == LRUGet(gc, gradientKey)
        miss2 == g2.ret = NULL
        gradientFn == IF miss2 THEN gradient(palette) ELSE g2.ret
        gc2 == IF miss2 THEN LRUSet(g2.c, gradientKey, gradientFn) ELSE g2.c
        calls2 == calls1 \o (IF miss2 THEN << <<"gradient", palette, NoRow>> >> ELSE <<>>)
        keys2 == keys1 \cup {<<"gradient", gradientKey, <<"plain", palette, 0, 1>>>>}
    IN
    IF gradientFn[1] = "throw"
    THEN Catch(fc2, g2.c, gradientFn[2], font, calls2, keys1)
    ELSE
    CASE direction = "horizontal" ->
           LET h == processHorizontalGradient(asciiArt, gradientFn)
           IN  [fc |-> fc2, gc |-> gc2, status |-> "ok", message |-> "", font |-> NULL,
                 out |-> h.out, art |-> asciiArt,
                calls |-> calls2 \o h.calls, keys |-> keys2]
      [] direction = "diagonal" ->
           LET d == processDiagonalGradient(gc2, asciiArt, palette)
           IN  [fc |-> fc2, gc |-> d.gc, status |-> "ok", message |-> "", font |-> NULL,
                 out |-> d.out, art |-> asciiArt,
                calls |-> calls2 \o d.calls, keys |-> keys2 \cup d.keys]
      [] OTHER ->
           [fc |-> fc2, gc |-> gc2, status |-> "ok", message |-> "", font |-> NULL,
            out |-> ApplyMultiline(gradientFn, asciiArt), art |-> asciiArt,
            calls |-> calls2 \o << <<"multiline", gradientFn[2], asciiArt, NoRow>> >>,
            keys |-> keys2]

(***************************************************************************)
(* AsciiCache (src/unnamed/part_006): a wrapper that counts hits and misses *)
(* around a store from the lru-cache package.  The package is not part of  *)
(* the sources; the store is modelled by the expiry rule the specification *)
(* gives: an entry is unreadable, as if absent, once                       *)
(* now - insertionOrLastAccessTime > ttl, and a read restarts its age when *)
(* refresh-on-access is on.  The store's entry and size limits are not     *)
(* reached by the two keys used here.                                      *)
(***************************************************************************)
UNDEFINED == "<undefined>"
NoTime == 0 - 1

CacheKeys == { [text |-> "a", font |-> "c"], [text |-> "b", font |-> "c"] }
AsciiArts == {"art1", "art2"}

NoOptions == [x \in {} |-> TRUE]
AsciiOptions ==
  {[maxAge |-> a] : a \in 1..MaxAge}
    \cup {[maxAge |-> a, updateAgeOnGet |-> b] : a \in 1..MaxAge, b \in BOOLEAN}

\* JSON.stringify({text, font, options}); the texts and fonts used have no
\* character that JSON escapes and the options are the same in every key
generateKey(cacheKey) ==
  "{\"text\":\"" \o cacheKey.text \o "\",\"font\":\"" \o cacheKey.font
     \o "\",\"options\":{}}"

StoreKeys == {generateKey(ck) : ck \in CacheKeys}

StoreStale(entry, t, ttl) == t - entry.start > ttl

\* get: [store, ret]; a stale entry is removed and reads as undefined
StoreGet(store, opts, k, t) ==
  IF k \notin DOMAIN store THEN [store |-> store, ret |-> UNDEFINED]
  ELSE IF StoreStale(store[k], t, opts.ttl)
  THEN [store |-> [x \in (DOMAIN store) \ {k} |-> store[x]], ret |-> UNDEFINED]
  ELSE [store |-> IF opts.updateAgeOnGet THEN [store EXCEPT ![k].start = t] ELSE store,
        ret   |-> store[k].value]

StoreHas(store, opts, k, t) ==
  k \in DOMAIN store /\ ~StoreStale(store[k], t, opts.ttl)

StoreSet(store, k, v, t) ==
  [x \in (DOMAIN store) \cup {k} |->
     IF x = k THEN [value |-> v, start |-> t] ELSE store[x]]

StoreDelete(store, k) == [x \in (DOMAIN store) \ {k} |-> store[x]]

DefaultMaxSize == 1000
DefaultMaxAge == 1000 * 60 * 30

NewAsciiCacheNoRefresh(options) ==
  LET maxSize == IF "maxSize" \in DOMAIN options THEN options.maxSize ELSE DefaultMaxSize
      maxAge == IF "maxAge" \in DOMAIN options THEN options.maxAge ELSE DefaultMaxAge
      updateAgeOnGet == IF "updateAgeOnGet" \in DOMAIN options
                        THEN options.updateAgeOnGet ELSE FALSE
  IN  [store |-> EmptyMap,
       opts  |-> [max |-> maxSize, ttl |-> maxAge, updateAgeOnGet |-> updateAgeOnGet,
                  maxSize |-> maxSize * 1000],
       hits |-> 0, misses |-> 0]

\* constructor(options = {}): maxSize = 1000, maxAge = 30 minutes and
\* updateAgeOnGet = true unless the options say otherwise
NewAsciiCache(options) ==
  LET maxSize == IF "maxSize" \in DOMAIN options THEN options.maxSize ELSE DefaultMaxSize
      maxAge == IF "maxAge" \in DOMAIN options THEN options.maxAge ELSE DefaultMaxAge
      updateAgeOnGet == IF "updateAgeOnGet" \in DOMAIN options
                        THEN options.updateAgeOnGet ELSE TRUE
  IN  [store |-> EmptyMap,
       opts  |-> [max |-> maxSize, ttl |-> maxAge, updateAgeOnGet |-> updateAgeOnGet,
                  maxSize |-> maxSize * 1000],
       hits |-> 0, misses |-> 0]

\* get: [c, ret]
AsciiGet(c, cacheKey, t) ==
  LET key == generateKey(cacheKey)
      result == StoreGet(c.store, c.opts, key, t)
  IN  [c   |-> IF result.ret # UNDEFINED
               THEN [c EXCEPT !.store = result.store, !.hits = @ + 1]
               ELSE [c EXCEPT !.store = result.store, !.misses = @ + 1],
       ret |-> result.ret]

AsciiSet(c, cacheKey, asciiArt, t) ==
  [c EXCEPT !.store = StoreSet(c.store, generateKey(cacheKey), asciiArt, t)]

AsciiHas(c, cacheKey, t) == StoreHas(c.store, c.opts, generateKey(cacheKey), t)

\* delete: [c, ret]
AsciiDelete(c, cacheKey) ==
  LET key == generateKey(cacheKey)
  IN  [c |-> [c EXCEPT !.store = StoreDelete(c.store, key)],
       ret |-> key \in DOMAIN c.store]

AsciiClear(c) == [c EXCEPT !.store = EmptyMap, !.hits = 0, !.misses = 0]

\* atouch[key] = <<when the entry was last set or read with a hit, the value
\* last set>>; NoTouch when the key has no entry
Untouched == <<NoTime, UNDEFINED>>
NoTouch == [k \in StoreKeys |-> Untouched]
Age(k) == IF atouch[k][1] = NoTime THEN NoTime ELSE now - atouch[k][1]

NoAsciiOp == [op |-> "new", key |-> NULL, value |-> NULL, ret |-> NULL,
              counted |-> "none", age |-> NoTime, expect |-> UNDEFINED]

(***************************************************************************)
(* The stand-alone cache under test: every public operation of LRUCache,   *)
(* with any key and value, in any order.                                   *)
(***************************************************************************)
Range(s) == {s[i] : i \in 1..Len(s)}

\* scen follows the history since construction for as long as it consists of
\* set calls with pairwise distinct keys and at most one get of a key already
\* inserted: ins lists the keys in insertion order, touched is the key read
\* and at the number of keys inserted when it was read.  has and getStats
\* are not recorded; any other call ends the scenario.
NoScen == [ok |-> FALSE, ins |-> <<>>, touched |-> NULL, at |-> 0]

ScenSet(sc, c, k) ==
  IF sc.ok /\ k \notin Range(sc.ins) /\ Len(sc.ins) <= c.maxSize
  THEN [sc EXCEPT !.ins = Append(@, k)]
  ELSE NoScen

ScenGet(sc, c, k) ==
  IF sc.ok /\ sc.touched = NULL /\ k \in Range(sc.ins) /\ Len(sc.ins) <= c.maxSize
  THEN [sc EXCEPT !.touched = k, !.at = Len(sc.ins)]
  ELSE NoScen

\* What the operation before the last one was, when it was a set: <<key, value>>.
JustSet == IF last.op = "set" THEN <<last.key, last.value>> ELSE <<>>

\* The hit and miss counters when the last operation was called.
Counters == <<lru.hits, lru.misses>>

NoOp == [op |-> "new", key |-> NULL, value |-> NULL, ret |-> NULL, evicted |-> {},
         after |-> <<>>, before |-> <<0, 0>>]

NewScen == [ok |-> TRUE, ins |-> <<>>, touched |-> NULL, at |-> 0]

NoRender ==
  [status |-> "none", message |-> "", font |-> NULL, out |-> EmptyString,
   art |-> EmptyString, calls |-> <<>>, known |-> FALSE, gkeys |-> {}]
\* the CLI process has not run its action yet
NoCode == 0 - 1
NoCliArgs ==
  [list |-> FALSE, text |-> "", palette |-> "", filled |-> FALSE, fails |-> FALSE, took |-> 0]
NoOutcome == [done |-> "none", by |-> "none", fired |-> <<>>]
\* the timers set while the module loads: the CacheManager singleton's
\* memory monitor, then the watchdog
LoadTimers == { <<"monitor", MonitorMs>>, <<"watchdog", WatchdogMs>> }

\* no renderInkLogo call made yet
NoInkCall ==
  [key |-> NULL, promise |-> NULL, rendered |-> FALSE, threw |-> FALSE, settled |-> FALSE,
   start |-> 0, args |-> <<>>]

\* no renderFilled call and no call of a wrapped function made yet
NoFilledCall == [text |-> "", palette |-> <<"name", "">>, letterSpacing |-> <<"undefined">>]
NoFilled == [status |-> "none", message |-> "", promise |-> NULL]
NoWrappedCall ==
  [seq |-> 0, key |-> [text |-> "", font |-> ""], result |-> <<"undefined">>,
   executed |-> FALSE, ret |-> <<"undefined">>]

\* no lines chosen yet
NoLines == [palette |-> <<>>, lineCount |-> 0, index1 |-> 0, index2 |-> 0]

\* no resolveColors call made yet
NoColors == [status |-> "none", ret |-> NULL, value |-> <<>>, message |-> ""]

NoArgs == [text |-> "", palette |-> <<>>, font |-> "", direction |-> ""]

InitLRU ==
  /\ \E n \in 1..MaxCap : lru = NewLRU(n)
  /\ last = NoOp
  /\ gets = 0
  /\ scen = NewScen
  /\ nops = 0
  /\ pre = lru
  /\ figletCache = NewLRU(figletCacheSize)
  /\ gradientCache = NewLRU(gradientCacheSize)
  /\ rin = NoArgs
  /\ rout = NoRender
  /\ seen = {}
  /\ nrender = 0
  /\ generated = {}
  /\ paletteCache = NewLRU(paletteCacheSize)
  /\ heap = <<>>
  /\ held = {}
  /\ pin = NULL
  /\ pret = NULL
  /\ npal = 0
  /\ cin = NULL
  /\ cret = NoColors
  /\ aopt = NoOptions
  /\ ac = NewAsciiCache(NoOptions)
  /\ now = 0
  /\ atouch = NoTouch
  /\ alast = NoAsciiOp
  /\ naops = 0
  /\ inkCache = NewLRU(inkCacheSize)
  /\ promises = <<>>
  /\ ilast = NoInkCall
  /\ nink = 0
  /\ stdout = <<>>
  /\ cpc = "parse"
  /\ cargs = NoCliArgs
  /\ cnow = 0
  /\ ctimers = LoadTimers
  /\ cexit = NoCode
  /\ cout = NoOutcome
  /\ nmem = 0
  /\ mcleared = NULL
  /\ fin = NoFilledCall
  /\ fret = NoFilled
  /\ nfill = 0
  /\ env = [size |-> UNDEFINED, ttl |-> UNDEFINED]
  /\ cfg = NULL
  /\ colorEnv = [name \in {"NO_COLOR", "FORCE_COLOR", "CI", "COLORTERM", "TERM_PROGRAM"} |-> UNDEFINED]
  /\ isTTY = "true"
  /\ colorDetectionCache = NULL
  /\ dateNow = 0
  /\ ulast = [seq |-> 0, variant |-> "none", options |-> [forceColor |-> FALSE, noColor |-> FALSE], result |-> FALSE]
  /\ ncolor = 0
  /\ wlast = NoWrappedCall
  /\ touched = [k \in Keys |-> 0]
  /\ dlines = NoLines
  /\ dkeys = NULL
  /\ accessCount = [k \in Keys |-> 0]

\* touched after an operation that left the cache as c and set or read
\* with a hit the keys of used
Touch(c, used) ==
  [k \in Keys |-> IF ~MapHas(c, k) THEN 0
                  ELSE IF k \in used THEN nops + 1 ELSE touched[k]]

\* accessCount after an operation that left the cache as c: the keys of
\* used were set or read with a hit, those of fresh are new nodes
Access(c, used, fresh) ==
  [k \in Keys |-> IF ~MapHas(c, k) THEN 0
                  ELSE IF k \in fresh THEN 1
                  ELSE IF k \in used THEN accessCount[k] + 1 ELSE accessCount[k]]

\* getHotKeys(): the entries with their access counts; the array holds all
\* of them while there are no more than the default limit of 10, and its
\* order is not followed
getHotKeys(c, counts) ==
  { <<k, counts[k]>> : k \in DOMAIN c.cache }

Get(k) ==
  /\ nops < MaxOps
  /\ LET r == LRUGet(lru, k) IN
       /\ lru' = r.c
       /\ last' = [op |-> "get", key |-> k, value |-> NULL, ret |-> r.ret, evicted |-> {}, after |-> JustSet, before |-> Counters]
  /\ gets' = gets + 1
  /\ scen' = ScenGet(scen, lru, k)
  /\ nops' = nops + 1
  /\ pre' = lru
  /\ touched' = Touch(lru', IF MapHas(lru, k) THEN {k} ELSE {})
  /\ accessCount' = Access(lru', IF MapHas(lru, k) THEN {k} ELSE {}, {})
  /\ UNCHANGED otherThanLru

Set(k, v) ==
  /\ nops < MaxOps
  /\ LET c == LRUSet(lru, k, v) IN
       /\ lru' = c
       /\ last' = [op |-> "set", key |-> k, value |-> v, ret |-> NULL,
                   evicted |-> {x \in DOMAIN lru.cache : ~MapHas(c, x)},
                   after |-> JustSet, before |-> Counters]
  /\ scen' = ScenSet(scen, lru, k)
  /\ nops' = nops + 1
  /\ pre' = lru
  /\ touched' = Touch(lru', {k})
  /\ accessCount' = Access(lru', {k}, IF MapHas(lru, k) THEN {} ELSE {k})
  /\ UNCHANGED gets
  /\ UNCHANGED otherThanLru

Has(k) ==
  /\ nops < MaxOps
  /\ last' = [op |-> "has", key |-> k, value |-> NULL, ret |-> LRUHas(lru, k), evicted |-> {}, after |-> JustSet, before |-> Counters]
  /\ nops' = nops + 1
  /\ pre' = lru
  /\ UNCHANGED <<lru, gets, scen, touched, accessCount>>
  /\ UNCHANGED otherThanLru

Delete(k) ==
  /\ nops < MaxOps
  /\ LET r == LRUDelete(lru, k) IN
       /\ lru' = r.c
       /\ last' = [op |-> "delete", key |-> k, value |-> NULL, ret |-> r.ret, evicted |-> {}, after |-> JustSet, before |-> Counters]
  /\ scen' = NoScen
  /\ nops' = nops + 1
  /\ pre' = lru
  /\ touched' = Touch(lru', {})
  /\ accessCount' = Access(lru', {}, {})
  /\ UNCHANGED gets
  /\ UNCHANGED otherThanLru

Clear ==
  /\ nops < MaxOps
  /\ lru' = LRUClear(lru)
  /\ last' = [op |-> "clear", key |-> NULL, value |-> NULL, ret |-> NULL, evicted |-> {}, after |-> JustSet, before |-> Counters]
  /\ gets' = 0
  /\ scen' = NoScen
  /\ nops' = nops + 1
  /\ pre' = lru
  /\ touched' = Touch(lru', {})
  /\ accessCount' = Access(lru', {}, {})
  /\ UNCHANGED otherThanLru

GetStats ==
  /\ nops < MaxOps
  /\ last' = [op |-> "getStats", key |-> NULL, value |-> NULL,
              ret |-> LRUGetStats(lru), evicted |-> {}, after |-> JustSet, before |-> Counters]
  /\ nops' = nops + 1
  /\ pre' = lru
  /\ UNCHANGED <<lru, gets, scen, touched, accessCount>>
  /\ UNCHANGED otherThanLru

GetHotKeys ==
  /\ nops < MaxOps
  /\ last' = [op |-> "getHotKeys", key |-> NULL, value |-> NULL,
              ret |-> getHotKeys(lru, accessCount), evicted |-> {}, after |-> JustSet,
              before |-> Counters]
  /\ nops' = nops + 1
  /\ pre' = lru
  /\ UNCHANGED <<lru, gets, scen, touched, accessCount>>
  /\ UNCHANGED otherThanLru

LruNext ==
  \/ \E k \in Keys : Get(k)
  \/ \E k \in Keys, v \in Values : Set(k, v)
  \/ \E k \in Keys : Has(k)
  \/ \E k \in Keys : Delete(k)
  \/ Clear
  \/ GetStats
  \/ GetHotKeys

vars == <<lru, last, gets, scen, nops, pre,
          figletCache, gradientCache, rin, rout, seen, nrender, generated,
          paletteCache, heap, held, pin, pret, npal, cin, cret,
          aopt, ac, now, atouch, alast, naops,
          inkCache, promises, ilast, nink, stdout,
          cpc, cargs, cnow, ctimers, cexit, cout, nmem, mcleared,
          fin, fret, nfill, env, cfg,
          colorEnv, isTTY, colorDetectionCache, dateNow, ulast, ncolor, wlast,
          touched, dlines, dkeys, accessCount>>

(***************************************************************************)
(* The renderer: renderLogo with any arguments and clearRenderCache, in    *)
(* any order, on the CacheManager singleton's caches.                      *)
(***************************************************************************)
InitRender ==
  /\ lru = NewLRU(1)
  /\ last = NoOp
  /\ gets = 0
  /\ scen = NewScen
  /\ nops = 0
  /\ pre = lru
  /\ figletCache = NewLRU(figletCacheSize)
  /\ gradientCache = NewLRU(gradientCacheSize)
  /\ rin = NoArgs
  /\ rout = NoRender
  /\ seen = {}
  /\ nrender = 0
  /\ generated = {}
  /\ paletteCache = NewLRU(paletteCacheSize)
  /\ heap = <<>>
  /\ held = {}
  /\ pin = NULL
  /\ pret = NULL
  /\ npal = 0
  /\ cin = NULL
  /\ cret = NoColors
  /\ aopt = NoOptions
  /\ ac = NewAsciiCache(NoOptions)
  /\ now = 0
  /\ atouch = NoTouch
  /\ alast = NoAsciiOp
  /\ naops = 0
  /\ inkCache = NewLRU(inkCacheSize)
  /\ promises = <<>>
  /\ ilast = NoInkCall
  /\ nink = 0
  /\ stdout = <<>>
  /\ cpc = "parse"
  /\ cargs = NoCliArgs
  /\ cnow = 0
  /\ ctimers = LoadTimers
  /\ cexit = NoCode
  /\ cout = NoOutcome
  /\ nmem = 0
  /\ mcleared = NULL
  /\ fin = NoFilledCall
  /\ fret = NoFilled
  /\ nfill = 0
  /\ env = [size |-> UNDEFINED, ttl |-> UNDEFINED]
  /\ cfg = NULL
  /\ colorEnv = [name \in {"NO_COLOR", "FORCE_COLOR", "CI", "COLORTERM", "TERM_PROGRAM"} |-> UNDEFINED]
  /\ isTTY = "true"
  /\ colorDetectionCache = NULL
  /\ dateNow = 0
  /\ ulast = [seq |-> 0, variant |-> "none", options |-> [forceColor |-> FALSE, noColor |-> FALSE], result |-> FALSE]
  /\ ncolor = 0
  /\ wlast = NoWrappedCall
  /\ touched = [k \in Keys |-> 0]
  /\ dlines = NoLines
  /\ dkeys = NULL
  /\ accessCount = [k \in Keys |-> 0]

Render(text, palette, font, direction) ==
  /\ nrender < MaxRenders
  /\ LET r == renderLogo(figletCache, gradientCache, text, palette, font, direction) IN
       /\ figletCache' = r.fc
       /\ gradientCache' = r.gc
       /\ rout' = [status |-> r.status, message |-> r.message, font |-> r.font,
                   out |-> r.out, art |-> r.art, calls |-> r.calls,
                   known |-> <<text, font>> \in generated,
                   gkeys |-> DOMAIN gradientCache.cache]
       /\ seen' = seen \cup r.keys
       /\ generated' =
            { p \in generated \cup
                      (IF /\ <<"figlet", text, font>> \in Range(r.calls)
                          /\ textSync(text, font).err = "none"
                       THEN { <<text, font>> } ELSE {}) :
                MapHas(r.fc, getFigletCacheKey(p[1], p[2])) }
  /\ rin' = [text |-> text, palette |-> palette, font |-> font, direction |-> direction]
  /\ nrender' = nrender + 1
  /\ UNCHANGED otherThanRender

ClearRenderCache ==
  /\ figletCache' = LRUClear(figletCache)
  /\ gradientCache' = LRUClear(gradientCache)
  /\ generated' = {}
  /\ UNCHANGED <<rin, rout, seen, nrender>>
  /\ UNCHANGED otherThanRender

RenderNext ==
  \/ \E call \in Calls : Render(call[1][1], call[2], call[1][2], call[3])
  \/ ClearRenderCache

(***************************************************************************)
(* palettes.ts: resolvePalette on the CacheManager's palette cache, callers *)
(* that write into the arrays they were given, and clearPaletteCache.      *)
(***************************************************************************)
PaletteNames == {"sunset", "dawn", "nope"}
Colors == {"#000000"}

\* the PALETTES table; a name that is not in it has no entry
PALETTES ==
  [name \in {"sunset", "dawn"} |->
     IF name = "sunset" THEN <<"#ff9966", "#ff5e62", "#ffa34e">>
     ELSE <<"#00c6ff", "#0072ff">>]

\* PALETTES is an object literal: PALETTES[name] also finds the properties
\* every object inherits from Object.prototype (functions, and for
\* '__proto__' an object), none of which is iterable.
ObjectPrototypeKeys ==
  {"constructor", "toString", "valueOf", "hasOwnProperty", "__proto__"}

\* PALETTES[name]
PaletteLookup(name) ==
  IF name \in DOMAIN PALETTES THEN <<"array", PALETTES[name]>>
  ELSE IF name \in ObjectPrototypeKeys THEN <<"inherited">>
  ELSE UNDEFINED

NotIterable == "TypeError: palette is not iterable"

\* resolvePalette: [pc, heap, ret, err]; ret is NULL or the reference
\* <<"ref", id>> of the array returned; err is "none" or what [...palette]
\* throws
resolvePalette(pc, h, name) ==
  LET g == LRUGet(pc, name)
      palette == PaletteLookup(name)
  IN
  IF g.ret # NULL
  THEN [pc |-> g.c, heap |-> h, ret |-> g.ret, err |-> "none"]
  ELSE IF palette = UNDEFINED
  THEN [pc |-> g.c, heap |-> h, ret |-> NULL, err |-> "none"]
  ELSE IF palette[1] # "array"
  THEN [pc |-> g.c, heap |-> h, ret |-> NULL, err |-> NotIterable]
  ELSE LET paletteArray == <<"ref", Len(h) + 1>>
       IN  [pc   |-> LRUSet(g.c, name, paletteArray),
            heap |-> Append(h, palette[2]),
            ret  |-> paletteArray, err |-> "none"]

\* lib.ts resolveColors(palette), palette being <<"ref", id>> (an array) or
\* <<"name", n>>: [pc, heap, status, ret, message]
resolveColors(pc, h, palette) ==
  IF palette[1] = "ref"
  THEN [pc |-> pc, heap |-> h, status |-> "ok", ret |-> palette, message |-> ""]
  ELSE LET r == resolvePalette(pc, h, palette[2]) IN
       IF r.err # "none"
       THEN [pc |-> r.pc, heap |-> r.heap, status |-> "TypeError", ret |-> NULL,
             message |-> r.err]
       ELSE IF r.ret = NULL
       THEN [pc |-> r.pc, heap |-> r.heap, status |-> "Error", ret |-> NULL,
             message |-> "Unknown palette: " \o palette[2]]
       ELSE [pc |-> r.pc, heap |-> r.heap, status |-> "ok", ret |-> r.ret, message |-> ""]

\* the names and arrays resolveColors is called with
ColorNames == PaletteNames \cup {"", "constructor"}
CustomArrays == { <<>>, <<"#ff0000", "#00ff00">> }

InitPalette ==
  /\ lru = NewLRU(1)
  /\ last = NoOp
  /\ gets = 0
  /\ scen = NewScen
  /\ nops = 0
  /\ pre = lru
  /\ figletCache = NewLRU(figletCacheSize)
  /\ gradientCache = NewLRU(gradientCacheSize)
  /\ rin = NoArgs
  /\ rout = NoRender
  /\ seen = {}
  /\ nrender = 0
  /\ generated = {}
  /\ paletteCache = NewLRU(paletteCacheSize)
  /\ heap = <<>>
  /\ held = {}
  /\ pin = NULL
  /\ pret = NULL
  /\ npal = 0
  /\ cin = NULL
  /\ cret = NoColors
  /\ aopt = NoOptions
  /\ ac = NewAsciiCache(NoOptions)
  /\ now = 0
  /\ atouch = NoTouch
  /\ alast = NoAsciiOp
  /\ naops = 0
  /\ inkCache = NewLRU(inkCacheSize)
  /\ promises = <<>>
  /\ ilast = NoInkCall
  /\ nink = 0
  /\ stdout = <<>>
  /\ cpc = "parse"
  /\ cargs = NoCliArgs
  /\ cnow = 0
  /\ ctimers = LoadTimers
  /\ cexit = NoCode
  /\ cout = NoOutcome
  /\ nmem = 0
  /\ mcleared = NULL
  /\ fin = NoFilledCall
  /\ fret = NoFilled
  /\ nfill = 0
  /\ env = [size |-> UNDEFINED, ttl |-> UNDEFINED]
  /\ cfg = NULL
  /\ colorEnv = [name \in {"NO_COLOR", "FORCE_COLOR", "CI", "COLORTERM", "TERM_PROGRAM"} |-> UNDEFINED]
  /\ isTTY = "true"
  /\ colorDetectionCache = NULL
  /\ dateNow = 0
  /\ ulast = [seq |-> 0, variant |-> "none", options |-> [forceColor |-> FALSE, noColor |-> FALSE], result |-> FALSE]
  /\ ncolor = 0
  /\ wlast = NoWrappedCall
  /\ touched = [k \in Keys |-> 0]
  /\ dlines = NoLines
  /\ dkeys = NULL
  /\ accessCount = [k \in Keys |-> 0]

ResolvePalette(name) ==
  /\ npal < MaxPaletteOps
  /\ LET r == resolvePalette(paletteCache, heap, name) IN
       /\ paletteCache' = r.pc
       /\ heap' = r.heap
       /\ held' = IF r.ret = NULL THEN held ELSE held \cup {r.ret[2]}
       /\ pret' = IF r.ret = NULL THEN NULL
                  ELSE <<r.ret, r.heap[r.ret[2]]>>
  /\ pin' = name
  /\ npal' = npal + 1
  /\ UNCHANGED <<cin, cret>>
  /\ UNCHANGED otherThanPalette

\* a caller writes into an array it was given: array[i] = color
WriteArray(id, i, color) ==
  /\ npal < MaxPaletteOps
  /\ id \in held /\ i \in 1..Len(heap[id])
  /\ heap' = [heap EXCEPT ![id][i] = color]
  /\ npal' = npal + 1
  /\ UNCHANGED <<paletteCache, held, pin, pret, cin, cret>>
  /\ UNCHANGED otherThanPalette

ClearPaletteCache ==
  /\ npal < MaxPaletteOps
  /\ paletteCache' = LRUClear(paletteCache)
  /\ npal' = npal + 1
  /\ UNCHANGED <<heap, held, pin, pret, cin, cret>>
  /\ UNCHANGED otherThanPalette

\* a caller makes an array of its own: const colors = [...]
NewArray(colors) ==
  /\ npal < MaxPaletteOps
  /\ heap' = Append(heap, colors)
  /\ held' = held \cup {Len(heap) + 1}
  /\ npal' = npal + 1
  /\ UNCHANGED <<paletteCache, pin, pret, cin, cret>>
  /\ UNCHANGED otherThanPalette

ResolveColors(palette) ==
  /\ npal < MaxPaletteOps
  /\ palette[1] = "ref" => palette[2] \in held
  /\ LET r == resolveColors(paletteCache, heap, palette) IN
       /\ paletteCache' = r.pc
       /\ heap' = r.heap
       /\ held' = IF r.ret = NULL THEN held ELSE held \cup {r.ret[2]}
       /\ cret' = [status |-> r.status, ret |-> r.ret,
                   value |-> IF r.ret = NULL THEN <<>> ELSE r.heap[r.ret[2]],
                   message |-> r.message]
  /\ cin' = palette
  /\ npal' = npal + 1
  /\ UNCHANGED <<pin, pret>>
  /\ UNCHANGED otherThanPalette

PaletteNext ==
  \/ \E colors \in CustomArrays : NewArray(colors)
  \/ \E name \in ColorNames : ResolveColors(<<"name", name>>)
  \/ \E id \in 1..MaxPaletteOps : ResolveColors(<<"ref", id>>)
  \/ \E name \in PaletteNames : ResolvePalette(name)
  \/ \E id \in 1..MaxPaletteOps, i \in 1..3, color \in Colors : WriteArray(id, i, color)
  \/ ClearPaletteCache

(***************************************************************************)
(* The AsciiCache under test: its methods with any key, and the clock.     *)
(***************************************************************************)
InitAscii ==
  /\ lru = NewLRU(1)
  /\ last = NoOp
  /\ gets = 0
  /\ scen = NewScen
  /\ nops = 0
  /\ pre = lru
  /\ figletCache = NewLRU(figletCacheSize)
  /\ gradientCache = NewLRU(gradientCacheSize)
  /\ rin = NoArgs
  /\ rout = NoRender
  /\ seen = {}
  /\ nrender = 0
  /\ generated = {}
  /\ paletteCache = NewLRU(paletteCacheSize)
  /\ heap = <<>>
  /\ held = {}
  /\ pin = NULL
  /\ pret = NULL
  /\ npal = 0
  /\ cin = NULL
  /\ cret = NoColors
  /\ \E o \in AsciiOptions : aopt = o
  /\ ac = NewAsciiCache(aopt)
  /\ now = 0
  /\ atouch = NoTouch
  /\ alast = NoAsciiOp
  /\ naops = 0
  /\ inkCache = NewLRU(inkCacheSize)
  /\ promises = <<>>
  /\ ilast = NoInkCall
  /\ nink = 0
  /\ stdout = <<>>
  /\ cpc = "parse"
  /\ cargs = NoCliArgs
  /\ cnow = 0
  /\ ctimers = LoadTimers
  /\ cexit = NoCode
  /\ cout = NoOutcome
  /\ nmem = 0
  /\ mcleared = NULL
  /\ fin = NoFilledCall
  /\ fret = NoFilled
  /\ nfill = 0
  /\ env = [size |-> UNDEFINED, ttl |-> UNDEFINED]
  /\ cfg = NULL
  /\ colorEnv = [name \in {"NO_COLOR", "FORCE_COLOR", "CI", "COLORTERM", "TERM_PROGRAM"} |-> UNDEFINED]
  /\ isTTY = "true"
  /\ colorDetectionCache = NULL
  /\ dateNow = 0
  /\ ulast = [seq |-> 0, variant |-> "none", options |-> [forceColor |-> FALSE, noColor |-> FALSE], result |-> FALSE]
  /\ ncolor = 0
  /\ wlast = NoWrappedCall
  /\ touched = [k \in Keys |-> 0]
  /\ dlines = NoLines
  /\ dkeys = NULL
  /\ accessCount = [k \in Keys |-> 0]

AGet(cacheKey) ==
  /\ naops < MaxAsciiOps
  /\ LET r == AsciiGet(ac, cacheKey, now)
         k == generateKey(cacheKey)
     IN  /\ ac' = r.c
         /\ atouch' = [atouch EXCEPT ![k] = IF r.ret = UNDEFINED THEN Untouched
                                            ELSE <<now, @[2]>>]
         /\ alast' = [op |-> "get", key |-> k, value |-> NULL, ret |-> r.ret,
                      counted |-> IF r.c.hits = ac.hits + 1 /\ r.c.misses = ac.misses
                                  THEN "hit"
                                  ELSE IF r.c.hits = ac.hits /\ r.c.misses = ac.misses + 1
                                  THEN "miss" ELSE "none",
                      age |-> Age(k), expect |-> atouch[k][2]]
  /\ naops' = naops + 1
  /\ wlast' = NoWrappedCall
  /\ UNCHANGED <<aopt, now>>
  /\ UNCHANGED otherThanAscii

ASet(cacheKey, asciiArt) ==
  /\ naops < MaxAsciiOps
  /\ LET k == generateKey(cacheKey) IN
       /\ ac' = AsciiSet(ac, cacheKey, asciiArt, now)
       /\ atouch' = [atouch EXCEPT ![k] = <<now, asciiArt>>]
       /\ alast' = [op |-> "set", key |-> k, value |-> asciiArt, ret |-> NULL,
                    counted |-> "none", age |-> Age(k), expect |-> atouch[k][2]]
  /\ naops' = naops + 1
  /\ wlast' = NoWrappedCall
  /\ UNCHANGED <<aopt, now>>
  /\ UNCHANGED otherThanAscii

AHas(cacheKey) ==
  /\ naops < MaxAsciiOps
  /\ LET k == generateKey(cacheKey) IN
       alast' = [op |-> "has", key |-> k, value |-> NULL,
                 ret |-> AsciiHas(ac, cacheKey, now),
                 counted |-> "none", age |-> Age(k), expect |-> atouch[k][2]]
  /\ naops' = naops + 1
  /\ wlast' = NoWrappedCall
  /\ UNCHANGED <<aopt, ac, now, atouch>>
  /\ UNCHANGED otherThanAscii

ADelete(cacheKey) ==
  /\ naops < MaxAsciiOps
  /\ LET r == AsciiDelete(ac, cacheKey)
         k == generateKey(cacheKey)
     IN  /\ ac' = r.c
         /\ atouch' = [atouch EXCEPT ![k] = Untouched]
         /\ alast' = [op |-> "delete", key |-> k, value |-> NULL, ret |-> r.ret,
                      counted |-> "none", age |-> Age(k), expect |-> atouch[k][2]]
  /\ naops' = naops + 1
  /\ wlast' = NoWrappedCall
  /\ UNCHANGED <<aopt, now>>
  /\ UNCHANGED otherThanAscii

AClear ==
  /\ naops < MaxAsciiOps
  /\ ac' = AsciiClear(ac)
  /\ atouch' = NoTouch
  /\ alast' = [NoAsciiOp EXCEPT !.op = "clear"]
  /\ naops' = naops + 1
  /\ wlast' = NoWrappedCall
  /\ UNCHANGED <<aopt, now>>
  /\ UNCHANGED otherThanAscii

\* time passes
Tick ==
  /\ now < MaxTime
  /\ now' = now + 1
  /\ wlast' = NoWrappedCall
  /\ UNCHANGED <<aopt, ac, atouch, alast, naops>>
  /\ UNCHANGED otherThanAscii

\* what a wrapped function returns: <<"string", s>>, a string of ASCII art,
\* or an object
FnResults == { <<"string", art>> : art \in AsciiArts } \cup { <<"object", "result">> }

\* typeof result === 'string'
TypeofString(result) == result[1] = "string"

\* the wrapper caching whatever the function returns
withCacheAnyResult(c, cacheKey, result, t) ==
  LET g == AsciiGet(c, cacheKey, t) IN
  IF g.ret # UNDEFINED
  THEN [c |-> g.c, ret |-> <<"string", g.ret>>, executed |-> FALSE]
  ELSE [c |-> AsciiSet(g.c, cacheKey, result[2], t), ret |-> result, executed |-> TRUE]

\* the function withCache(fn, getCacheKey) returns, called with arguments
\* whose key is cacheKey and for which fn, if executed, returns result:
\* [c, ret, executed]
withCache(c, cacheKey, result, t) ==
  LET g == AsciiGet(c, cacheKey, t) IN
  IF g.ret # UNDEFINED
  THEN [c |-> g.c, ret |-> <<"string", g.ret>>, executed |-> FALSE]
  ELSE [c |-> IF TypeofString(result) THEN AsciiSet(g.c, cacheKey, result[2], t) ELSE g.c,
        ret |-> result, executed |-> TRUE]

CachedFn(cacheKey, result) ==
  /\ naops < MaxAsciiOps
  /\ LET r == withCache(ac, cacheKey, result, now)
         k == generateKey(cacheKey)
     IN  /\ ac' = r.c
         /\ atouch' = [atouch EXCEPT ![k] =
                         IF ~r.executed THEN <<now, @[2]>>
                         ELSE IF TypeofString(result) THEN <<now, result[2]>>
                         ELSE Untouched]
         /\ wlast' = [seq |-> naops + 1, key |-> cacheKey, result |-> result,
                      executed |-> r.executed, ret |-> r.ret]
  /\ alast' = NoAsciiOp
  /\ naops' = naops + 1
  /\ UNCHANGED <<aopt, now>>
  /\ UNCHANGED otherThanAscii

AsciiNext ==
  \/ \E ck \in CacheKeys : AGet(ck)
  \/ \E ck \in CacheKeys, art \in AsciiArts : ASet(ck, art)
  \/ \E ck \in CacheKeys : AHas(ck)
  \/ \E ck \in CacheKeys : ADelete(ck)
  \/ AClear
  \/ Tick

SpecAscii == InitAscii /\ [][AsciiNext]_vars

\* the global cache used through wrapped functions, emptied, and ageing
WithCacheNext ==
  \/ \E ck \in CacheKeys, result \in FnResults : CachedFn(ck, result)
  \/ \E ck \in CacheKeys : ADelete(ck)
  \/ AClear
  \/ Tick

\* new AsciiCache(getCacheConfig()): updateAgeOnGet is true
InitWithCache ==
  /\ lru = NewLRU(1)
  /\ last = NoOp
  /\ gets = 0
  /\ scen = NewScen
  /\ nops = 0
  /\ pre = lru
  /\ figletCache = NewLRU(figletCacheSize)
  /\ gradientCache = NewLRU(gradientCacheSize)
  /\ rin = NoArgs
  /\ rout = NoRender
  /\ seen = {}
  /\ nrender = 0
  /\ generated = {}
  /\ paletteCache = NewLRU(paletteCacheSize)
  /\ heap = <<>>
  /\ held = {}
  /\ pin = NULL
  /\ pret = NULL
  /\ npal = 0
  /\ cin = NULL
  /\ cret = NoColors
  /\ \E a \in 1..MaxAge : aopt = [maxAge |-> a, updateAgeOnGet |-> TRUE]
  /\ ac = NewAsciiCache(aopt)
  /\ now = 0
  /\ atouch = NoTouch
  /\ alast = NoAsciiOp
  /\ naops = 0
  /\ inkCache = NewLRU(inkCacheSize)
  /\ promises = <<>>
  /\ ilast = NoInkCall
  /\ nink = 0
  /\ stdout = <<>>
  /\ cpc = "parse"
  /\ cargs = NoCliArgs
  /\ cnow = 0
  /\ ctimers = LoadTimers
  /\ cexit = NoCode
  /\ cout = NoOutcome
  /\ nmem = 0
  /\ mcleared = NULL
  /\ fin = NoFilledCall
  /\ fret = NoFilled
  /\ nfill = 0
  /\ env = [size |-> UNDEFINED, ttl |-> UNDEFINED]
  /\ cfg = NULL
  /\ colorEnv = [name \in {"NO_COLOR", "FORCE_COLOR", "CI", "COLORTERM", "TERM_PROGRAM"} |-> UNDEFINED]
  /\ isTTY = "true"
  /\ colorDetectionCache = NULL
  /\ dateNow = 0
  /\ ulast = [seq |-> 0, variant |-> "none", options |-> [forceColor |-> FALSE, noColor |-> FALSE], result |-> FALSE]
  /\ ncolor = 0
  /\ wlast = NoWrappedCall
  /\ touched = [k \in Keys |-> 0]
  /\ dlines = NoLines
  /\ dkeys = NULL
  /\ accessCount = [k \in Keys |-> 0]

SpecWithCache == InitWithCache /\ [][WithCacheNext]_vars

(***************************************************************************)
(* InkRenderer.tsx: renderInkLogo, the timer it sets, and clearInkCache.   *)
(* Ink's render and the unmount it returns may throw; the code catches     *)
(* both.                                                                   *)
(***************************************************************************)
\* the (text, palette) pairs renderInkLogo is called with
InkCalls == { <<"a", <<"A", "B">>>>, <<"b", <<>>>> }

\* one cache key for every text and palette
oneInkCacheKey(text, palette) == "logo"

\* `${text}:${palette.join(',')}`
getInkCacheKey(text, palette) == text \o ":" \o Join(palette, ",")

Settled(promise) == promise.state # "pending"

\* what Ink's render puts on the screen for <Logo text colors/>
InkFrame(text, palette) == <<"logo", text, palette>>

InitInk ==
  /\ lru = NewLRU(1)
  /\ last = NoOp
  /\ gets = 0
  /\ scen = NewScen
  /\ nops = 0
  /\ pre = lru
  /\ figletCache = NewLRU(figletCacheSize)
  /\ gradientCache = NewLRU(gradientCacheSize)
  /\ rin = NoArgs
  /\ rout = NoRender
  /\ seen = {}
  /\ nrender = 0
  /\ generated = {}
  /\ paletteCache = NewLRU(paletteCacheSize)
  /\ heap = <<>>
  /\ held = {}
  /\ pin = NULL
  /\ pret = NULL
  /\ npal = 0
  /\ cin = NULL
  /\ cret = NoColors
  /\ aopt = NoOptions
  /\ ac = NewAsciiCache(NoOptions)
  /\ now = 0
  /\ atouch = NoTouch
  /\ alast = NoAsciiOp
  /\ naops = 0
  /\ inkCache = NewLRU(inkCacheSize)
  /\ promises = <<>>
  /\ ilast = NoInkCall
  /\ nink = 0
  /\ stdout = <<>>
  /\ cpc = "parse"
  /\ cargs = NoCliArgs
  /\ cnow = 0
  /\ ctimers = LoadTimers
  /\ cexit = NoCode
  /\ cout = NoOutcome
  /\ nmem = 0
  /\ mcleared = NULL
  /\ fin = NoFilledCall
  /\ fret = NoFilled
  /\ nfill = 0
  /\ env = [size |-> UNDEFINED, ttl |-> UNDEFINED]
  /\ cfg = NULL
  /\ colorEnv = [name \in {"NO_COLOR", "FORCE_COLOR", "CI", "COLORTERM", "TERM_PROGRAM"} |-> UNDEFINED]
  /\ isTTY = "true"
  /\ colorDetectionCache = NULL
  /\ dateNow = 0
  /\ ulast = [seq |-> 0, variant |-> "none", options |-> [forceColor |-> FALSE, noColor |-> FALSE], result |-> FALSE]
  /\ ncolor = 0
  /\ wlast = NoWrappedCall
  /\ touched = [k \in Keys |-> 0]
  /\ dlines = NoLines
  /\ dkeys = NULL
  /\ accessCount = [k \in Keys |-> 0]

InkCall(text, palette, renderThrows) ==
  /\ LET cacheKey == getInkCacheKey(text, palette)
         g == LRUGet(inkCache, cacheKey)
         cached == g.ret
         renderPromise == <<"promise", Len(promises) + 1>>
     IN
     IF cached # NULL
     THEN /\ inkCache' = g.c
          /\ promises' = promises
          /\ stdout' = stdout
          /\ ilast' = [key |-> cacheKey, promise |-> cached, rendered |-> FALSE,
                       threw |-> FALSE, settled |-> Settled(promises[cached[2]]),
                       start |-> Len(stdout), args |-> <<text, palette>>]
     ELSE /\ inkCache' = LRUSet(g.c, cacheKey, renderPromise)
          /\ promises' = Append(promises,
                IF renderThrows
                THEN [state |-> "rejected", shown |-> FALSE, mounted |-> FALSE,
                      unmounts |-> 0, timer |-> FALSE,
                      args |-> <<text, palette>>, cleared |-> FALSE]
                ELSE [state |-> "pending", shown |-> TRUE, mounted |-> TRUE,
                      unmounts |-> 0, timer |-> TRUE,
                      args |-> <<text, palette>>, cleared |-> FALSE])
          /\ stdout' = IF renderThrows THEN stdout ELSE Append(stdout, InkFrame(text, palette))
          /\ ilast' = [key |-> cacheKey, promise |-> renderPromise, rendered |-> TRUE,
                       threw |-> renderThrows, settled |-> renderThrows,
                       start |-> Len(stdout), args |-> <<text, palette>>]
  /\ nink' = nink + 1

RenderInkLogo(text, palette, renderThrows) ==
  /\ nink < MaxInk
  /\ InkCall(text, palette, renderThrows)
  /\ UNCHANGED otherThanInk

\* the setTimeout callback of promise p runs: unmount(), then resolve(), or
\* reject(error) when unmount throws
Timeout(p, unmountThrows) ==
  /\ p <= Len(promises)
  /\ promises[p].timer
  /\ promises' = [promises EXCEPT ![p] =
        [state |-> IF unmountThrows THEN "rejected" ELSE "resolved",
         shown |-> @.shown,
         mounted |-> unmountThrows,
         unmounts |-> @.unmounts + 1,
         timer |-> FALSE,
         args |-> @.args, cleared |-> @.cleared]]
  /\ UNCHANGED <<inkCache, ilast, nink, stdout>>
  /\ UNCHANGED otherThanInk

ClearInkCache ==
  /\ inkCache' = LRUClear(inkCache)
  /\ promises' = [p \in DOMAIN promises |-> [promises[p] EXCEPT !.cleared = TRUE]]
  /\ UNCHANGED <<ilast, nink, stdout>>
  /\ UNCHANGED otherThanInk

InkNext ==
  \/ \E call \in InkCalls, renderThrows \in BOOLEAN :
        RenderInkLogo(call[1], call[2], renderThrows)
  \/ \E p \in 1..MaxInk, unmountThrows \in BOOLEAN : Timeout(p, unmountThrows)
  \/ ClearInkCache

SpecInk == InitInk /\ [][InkNext]_vars

\* the event loop runs every timer that is due
SpecInkLive ==
  SpecInk /\ \A p \in 1..MaxInk : WF_vars(\E unmountThrows \in BOOLEAN : Timeout(p, unmountThrows))

(***************************************************************************)
(* getCacheConfig: the configuration of the global AsciiCache, read from   *)
(* the environment when the module is loaded.  A JavaScript number is      *)
(* <<"number", n>> or <<"NaN">>.                                           *)
(***************************************************************************)
NaN == <<"NaN">>
Digits == <<"0", "1", "2", "3", "4", "5", "6", "7", "8", "9">>
IsDigit(ch) == \E d \in 1..10 : Digits[d] = ch
DigitValue(ch) == (CHOOSE d \in 1..10 : Digits[d] = ch) - 1

\* the value of the longest prefix of digits of s from position i on, acc
\* being the value of the digits read so far
RECURSIVE DigitsValue(_, _, _)
DigitsValue(s, i, acc) ==
  IF i <= Len(s) /\ IsDigit(SubSeq(s, i, i))
  THEN DigitsValue(s, i + 1, acc * 10 + DigitValue(SubSeq(s, i, i)))
  ELSE acc

RECURSIVE SkipSpace(_, _)
SkipSpace(s, i) ==
  IF i <= Len(s) /\ SubSeq(s, i, i) = " " THEN SkipSpace(s, i + 1) ELSE i

\* parseInt(s, 10): leading white space, a sign, then the digits up to the
\* first character that is none; NaN when there is no digit
parseInt(s) ==
  LET i == SkipSpace(s, 1)
      signed == i <= Len(s) /\ SubSeq(s, i, i) \in {"-", "+"}
      j == IF signed THEN i + 1 ELSE i
  IN  IF j <= Len(s) /\ IsDigit(SubSeq(s, j, j))
      THEN <<"number", IF signed /\ SubSeq(s, i, i) = "-"
                        THEN 0 - DigitsValue(s, j, 0) ELSE DigitsValue(s, j, 0)>>
      ELSE NaN

\* Math.min and Math.max: NaN when an argument is NaN
MathMin(a, b) ==
  IF a = NaN \/ b = NaN THEN NaN ELSE IF a[2] <= b[2] THEN a ELSE b
MathMax(a, b) ==
  IF a = NaN \/ b = NaN THEN NaN ELSE IF a[2] >= b[2] THEN a ELSE b

\* value || fallback, for a string or undefined
OrDefault(value, fallback) ==
  IF value = UNDEFINED \/ value = "" THEN fallback ELSE value

Num(n) == <<"number", n>>

\* getCacheConfig(): <<maxSize, maxAge>>
getCacheConfig(e) ==
  LET maxSize == parseInt(OrDefault(e.size, "1000"))
      maxAge == parseInt(OrDefault(e.ttl, "1800000"))
  IN  << MathMax(Num(10), MathMin(maxSize, Num(10000))),
         MathMax(Num(60000), MathMin(maxAge, Num(3600000))) >>

\* values of OHMYLOGO_CACHE_SIZE and OHMYLOGO_CACHE_TTL
EnvValues ==
  {UNDEFINED, "", "abc", "0", "-5", "9", "10", "500", "10000", "10001", "59999",
   "60000", "3600000", "3600001", "12abc", " 42", "1e9"}

InitConfig ==
  /\ lru = NewLRU(1)
  /\ last = NoOp
  /\ gets = 0
  /\ scen = NewScen
  /\ nops = 0
  /\ pre = lru
  /\ figletCache = NewLRU(figletCacheSize)
  /\ gradientCache = NewLRU(gradientCacheSize)
  /\ rin = NoArgs
  /\ rout = NoRender
  /\ seen = {}
  /\ nrender = 0
  /\ generated = {}
  /\ paletteCache = NewLRU(paletteCacheSize)
  /\ heap = <<>>
  /\ held = {}
  /\ pin = NULL
  /\ pret = NULL
  /\ npal = 0
  /\ cin = NULL
  /\ cret = NoColors
  /\ aopt = NoOptions
  /\ ac = NewAsciiCache(NoOptions)
  /\ now = 0
  /\ atouch = NoTouch
  /\ alast = NoAsciiOp
  /\ naops = 0
  /\ inkCache = NewLRU(inkCacheSize)
  /\ promises = <<>>
  /\ ilast = NoInkCall
  /\ nink = 0
  /\ stdout = <<>>
  /\ cpc = "parse"
  /\ cargs = NoCliArgs
  /\ cnow = 0
  /\ ctimers = LoadTimers
  /\ cexit = NoCode
  /\ cout = NoOutcome
  /\ nmem = 0
  /\ mcleared = NULL
  /\ fin = NoFilledCall
  /\ fret = NoFilled
  /\ nfill = 0
  /\ \E size \in EnvValues, ttl \in EnvValues : env = [size |-> size, ttl |-> ttl]
  /\ cfg = NULL
  /\ colorEnv = [name \in {"NO_COLOR", "FORCE_COLOR", "CI", "COLORTERM", "TERM_PROGRAM"} |-> UNDEFINED]
  /\ isTTY = "true"
  /\ colorDetectionCache = NULL
  /\ dateNow = 0
  /\ ulast = [seq |-> 0, variant |-> "none", options |-> [forceColor |-> FALSE, noColor |-> FALSE], result |-> FALSE]
  /\ ncolor = 0
  /\ wlast = NoWrappedCall
  /\ touched = [k \in Keys |-> 0]
  /\ dlines = NoLines
  /\ dkeys = NULL
  /\ accessCount = [k \in Keys |-> 0]

\* the module is loaded
LoadCacheConfig ==
  /\ cfg = NULL
  /\ cfg' = getCacheConfig(env)
  /\ UNCHANGED env
  /\ UNCHANGED otherThanConfig

ConfigNext == LoadCacheConfig

SpecConfig == InitConfig /\ [][ConfigNext]_vars

(***************************************************************************)
(* processDiagonalGradient on two consecutive lines of one glyph block:    *)
(* the cache key and the shifted palette of each.                          *)
(***************************************************************************)
ShiftPalettes == { <<"A", "B">>, <<"A", "B", "C">> }

\* short blocks, and blocks of some hundred lines
LineCounts == (2..6) \cup ((MaxLines - 3)..MaxLines)

InitShift ==
  /\ lru = NewLRU(1)
  /\ last = NoOp
  /\ gets = 0
  /\ scen = NewScen
  /\ nops = 0
  /\ pre = lru
  /\ figletCache = NewLRU(figletCacheSize)
  /\ gradientCache = NewLRU(gradientCacheSize)
  /\ rin = NoArgs
  /\ rout = NoRender
  /\ seen = {}
  /\ nrender = 0
  /\ generated = {}
  /\ paletteCache = NewLRU(paletteCacheSize)
  /\ heap = <<>>
  /\ held = {}
  /\ pin = NULL
  /\ pret = NULL
  /\ npal = 0
  /\ cin = NULL
  /\ cret = NoColors
  /\ aopt = NoOptions
  /\ ac = NewAsciiCache(NoOptions)
  /\ now = 0
  /\ atouch = NoTouch
  /\ alast = NoAsciiOp
  /\ naops = 0
  /\ inkCache = NewLRU(inkCacheSize)
  /\ promises = <<>>
  /\ ilast = NoInkCall
  /\ nink = 0
  /\ stdout = <<>>
  /\ cpc = "parse"
  /\ cargs = NoCliArgs
  /\ cnow = 0
  /\ ctimers = LoadTimers
  /\ cexit = NoCode
  /\ cout = NoOutcome
  /\ nmem = 0
  /\ mcleared = NULL
  /\ fin = NoFilledCall
  /\ fret = NoFilled
  /\ nfill = 0
  /\ env = [size |-> UNDEFINED, ttl |-> UNDEFINED]
  /\ cfg = NULL
  /\ colorEnv = [name \in {"NO_COLOR", "FORCE_COLOR", "CI", "COLORTERM", "TERM_PROGRAM"} |-> UNDEFINED]
  /\ isTTY = "true"
  /\ colorDetectionCache = NULL
  /\ dateNow = 0
  /\ ulast = [seq |-> 0, variant |-> "none", options |-> [forceColor |-> FALSE, noColor |-> FALSE], result |-> FALSE]
  /\ ncolor = 0
  /\ wlast = NoWrappedCall
  /\ touched = [k \in Keys |-> 0]
  /\ \E palette \in ShiftPalettes, lineCount \in LineCounts : \E index1 \in 0..(lineCount - 2) : dlines = [palette |-> palette, lineCount |-> lineCount, index1 |-> index1, index2 |-> index1 + 1]
  /\ dkeys = NULL
  /\ accessCount = [k \in Keys |-> 0]

\* the loop's body at index1 and at index2
DiagonalKeys2 ==
  /\ dkeys = NULL
  /\ dkeys' =
       << getDiagonalCacheKey(dlines.palette, dlines.index1 * Len(dlines.palette),
                              dlines.lineCount),
          getDiagonalCacheKey(dlines.palette, dlines.index2 * Len(dlines.palette),
                              dlines.lineCount),
          ShiftedPalette(dlines.palette, dlines.index1, dlines.lineCount),
          ShiftedPalette(dlines.palette, dlines.index2, dlines.lineCount) >>
  /\ UNCHANGED dlines
  /\ UNCHANGED otherThanShift

ShiftNext == DiagonalKeys2

SpecShift == InitShift /\ [][ShiftNext]_vars

(***************************************************************************)
(* utils/stdout.ts: shouldUseColor, without and with the cache of its      *)
(* detection result, in an environment that changes between calls.         *)
(***************************************************************************)
CACHE_DURATION == 5000

ColorEnvNames == {"NO_COLOR", "FORCE_COLOR", "CI", "COLORTERM", "TERM_PROGRAM"}
ColorEnvValues == {UNDEFINED, "", "1"}
ColorOptions == [forceColor : BOOLEAN, noColor : BOOLEAN]

\* a string or undefined read as a condition
Truthy(value) == value # UNDEFINED /\ value # ""

\* the environment-based detection
DetectColor(e, tty) ==
  IF Truthy(e["NO_COLOR"]) THEN FALSE
  ELSE IF Truthy(e["FORCE_COLOR"]) THEN TRUE
  ELSE IF Truthy(e["CI"]) /\ (Truthy(e["COLORTERM"]) \/ Truthy(e["TERM_PROGRAM"])) THEN TRUE
  ELSE tty = "true"

\* shouldUseColor(options), stdout.ts 6-34
shouldUseColor(options, e, tty) ==
  IF options.forceColor THEN TRUE
  ELSE IF options.noColor THEN FALSE
  ELSE DetectColor(e, tty)

\* whether the cached detection result is used
CacheFresh(cache, timeNow) ==
  cache # NULL /\ timeNow - cache[2] < CACHE_DURATION

\* shouldUseColor(options), stdout.ts 51-91: [result, cache]
shouldUseColorCached(options, e, tty, cache, timeNow) ==
  IF options.forceColor THEN [result |-> TRUE, cache |-> cache]
  ELSE IF options.noColor THEN [result |-> FALSE, cache |-> cache]
  ELSE IF CacheFresh(cache, timeNow) THEN [result |-> cache[1], cache |-> cache]
  ELSE [result |-> DetectColor(e, tty), cache |-> <<DetectColor(e, tty), timeNow>>]

InitColor ==
  /\ lru = NewLRU(1)
  /\ last = NoOp
  /\ gets = 0
  /\ scen = NewScen
  /\ nops = 0
  /\ pre = lru
  /\ figletCache = NewLRU(figletCacheSize)
  /\ gradientCache = NewLRU(gradientCacheSize)
  /\ rin = NoArgs
  /\ rout = NoRender
  /\ seen = {}
  /\ nrender = 0
  /\ generated = {}
  /\ paletteCache = NewLRU(paletteCacheSize)
  /\ heap = <<>>
  /\ held = {}
  /\ pin = NULL
  /\ pret = NULL
  /\ npal = 0
  /\ cin = NULL
  /\ cret = NoColors
  /\ aopt = NoOptions
  /\ ac = NewAsciiCache(NoOptions)
  /\ now = 0
  /\ atouch = NoTouch
  /\ alast = NoAsciiOp
  /\ naops = 0
  /\ inkCache = NewLRU(inkCacheSize)
  /\ promises = <<>>
  /\ ilast = NoInkCall
  /\ nink = 0
  /\ stdout = <<>>
  /\ cpc = "parse"
  /\ cargs = NoCliArgs
  /\ cnow = 0
  /\ ctimers = LoadTimers
  /\ cexit = NoCode
  /\ cout = NoOutcome
  /\ nmem = 0
  /\ mcleared = NULL
  /\ fin = NoFilledCall
  /\ fret = NoFilled
  /\ nfill = 0
  /\ env = [size |-> UNDEFINED, ttl |-> UNDEFINED]
  /\ cfg = NULL
  /\ colorEnv = [name \in {"NO_COLOR", "FORCE_COLOR", "CI", "COLORTERM", "TERM_PROGRAM"} |-> UNDEFINED]
  /\ isTTY = "true"
  /\ colorDetectionCache = NULL
  /\ dateNow = 0
  /\ ulast = [seq |-> 0, variant |-> "none", options |-> [forceColor |-> FALSE, noColor |-> FALSE], result |-> FALSE]
  /\ ncolor = 0
  /\ wlast = NoWrappedCall
  /\ touched = [k \in Keys |-> 0]
  /\ dlines = NoLines
  /\ dkeys = NULL
  /\ accessCount = [k \in Keys |-> 0]

ShouldUseColor(options) ==
  /\ ncolor < MaxColorOps
  /\ ulast' = [seq |-> ncolor + 1, variant |-> "plain", options |-> options,
               result |-> shouldUseColor(options, colorEnv, isTTY)]
  /\ ncolor' = ncolor + 1
  /\ UNCHANGED <<colorEnv, isTTY, colorDetectionCache, dateNow>>
  /\ UNCHANGED otherThanColor

ShouldUseColorCached(options) ==
  /\ ncolor < MaxColorOps
  /\ LET r == shouldUseColorCached(options, colorEnv, isTTY, colorDetectionCache, dateNow) IN
       /\ colorDetectionCache' = r.cache
       /\ ulast' = [seq |-> ncolor + 1, variant |-> "cached", options |-> options,
                    result |-> r.result]
  /\ ncolor' = ncolor + 1
  /\ UNCHANGED <<colorEnv, isTTY, dateNow>>
  /\ UNCHANGED otherThanColor

clearColorCache ==
  /\ ncolor < MaxColorOps
  /\ colorDetectionCache' = NULL
  /\ ncolor' = ncolor + 1
  /\ UNCHANGED <<colorEnv, isTTY, dateNow, ulast>>
  /\ UNCHANGED otherThanColor

\* process.env[name] = value, or delete process.env[name]
SetEnv(name, value) ==
  /\ ncolor < MaxColorOps
  /\ colorEnv[name] # value
  /\ colorEnv' = [colorEnv EXCEPT ![name] = value]
  /\ ncolor' = ncolor + 1
  /\ UNCHANGED <<isTTY, colorDetectionCache, dateNow, ulast>>
  /\ UNCHANGED otherThanColor

\* stdout becomes or stops being a terminal, or loses the property
SetTTY(tty) ==
  /\ ncolor < MaxColorOps
  /\ isTTY # tty
  /\ isTTY' = tty
  /\ ncolor' = ncolor + 1
  /\ UNCHANGED <<colorEnv, colorDetectionCache, dateNow, ulast>>
  /\ UNCHANGED otherThanColor

\* half the cache duration passes
ColorTick ==
  /\ ncolor < MaxColorOps
  /\ dateNow' = dateNow + CACHE_DURATION \div 2
  /\ ncolor' = ncolor + 1
  /\ UNCHANGED <<colorEnv, isTTY, colorDetectionCache, ulast>>
  /\ UNCHANGED otherThanColor

ColorNext ==
  \/ \E options \in ColorOptions : ShouldUseColor(options)
  \/ \E options \in ColorOptions : ShouldUseColorCached(options)
  \/ clearColorCache
  \/ \E name \in ColorEnvNames, value \in ColorEnvValues : SetEnv(name, value)
  \/ \E tty \in {"true", "false", UNDEFINED} : SetTTY(tty)
  \/ ColorTick

SpecColor == InitColor /\ [][ColorNext]_vars

(***************************************************************************)
(* lib.ts renderFilled(text, { palette, font, letterSpacing }).  A letter  *)
(* spacing is <<"undefined">>, <<"NaN">> or <<"number", n>>.               *)
(***************************************************************************)
LetterSpacings ==
  { <<"undefined">>, <<"NaN">> } \cup { <<"number", n>> : n \in (0 - 2)..1 }

FilledPalettes == { <<"name", "sunset">>, <<"name", "nope">>, <<"name", "constructor">> }

FilledCalls == [text : {"a", "b"}, palette : FilledPalettes, letterSpacing : LetterSpacings]

SpacingMessage == "Letter spacing must be 0 or greater"

NeverInvalid(letterSpacing) == FALSE

\* letterSpacing !== undefined && letterSpacing < 0
InvalidSpacing(letterSpacing) ==
  letterSpacing[1] = "number" /\ letterSpacing[2] < 0

RenderFilled(call, renderThrows) ==
  /\ nfill < MaxFilled
  /\ fin' = call
  /\ nfill' = nfill + 1
  /\ IF InvalidSpacing(call.letterSpacing)
     THEN /\ fret' = [status |-> "Error", message |-> SpacingMessage, promise |-> NULL]
          /\ UNCHANGED <<paletteCache, heap, inkVars>>
     ELSE LET r == resolveColors(paletteCache, heap, call.palette) IN
          /\ paletteCache' = r.pc
          /\ heap' = r.heap
          /\ IF r.status # "ok"
             THEN /\ fret' = [status |-> r.status, message |-> r.message, promise |-> NULL]
                  /\ UNCHANGED inkVars
             ELSE /\ InkCall(call.text, r.heap[r.ret[2]], renderThrows)
                  /\ fret' = [status |-> "returned", message |-> "",
                              promise |-> ilast'.promise]
  /\ UNCHANGED otherThanFilled

InitFilled ==
  /\ lru = NewLRU(1)
  /\ last = NoOp
  /\ gets = 0
  /\ scen = NewScen
  /\ nops = 0
  /\ pre = lru
  /\ figletCache = NewLRU(figletCacheSize)
  /\ gradientCache = NewLRU(gradientCacheSize)
  /\ rin = NoArgs
  /\ rout = NoRender
  /\ seen = {}
  /\ nrender = 0
  /\ generated = {}
  /\ paletteCache = NewLRU(paletteCacheSize)
  /\ heap = <<>>
  /\ held = {}
  /\ pin = NULL
  /\ pret = NULL
  /\ npal = 0
  /\ cin = NULL
  /\ cret = NoColors
  /\ aopt = NoOptions
  /\ ac = NewAsciiCache(NoOptions)
  /\ now = 0
  /\ atouch = NoTouch
  /\ alast = NoAsciiOp
  /\ naops = 0
  /\ inkCache = NewLRU(inkCacheSize)
  /\ promises = <<>>
  /\ ilast = NoInkCall
  /\ nink = 0
  /\ stdout = <<>>
  /\ cpc = "parse"
  /\ cargs = NoCliArgs
  /\ cnow = 0
  /\ ctimers = LoadTimers
  /\ cexit = NoCode
  /\ cout = NoOutcome
  /\ nmem = 0
  /\ mcleared = NULL
  /\ fin = NoFilledCall
  /\ fret = NoFilled
  /\ nfill = 0
  /\ env = [size |-> UNDEFINED, ttl |-> UNDEFINED]
  /\ cfg = NULL
  /\ colorEnv = [name \in {"NO_COLOR", "FORCE_COLOR", "CI", "COLORTERM", "TERM_PROGRAM"} |-> UNDEFINED]
  /\ isTTY = "true"
  /\ colorDetectionCache = NULL
  /\ dateNow = 0
  /\ ulast = [seq |-> 0, variant |-> "none", options |-> [forceColor |-> FALSE, noColor |-> FALSE], result |-> FALSE]
  /\ ncolor = 0
  /\ wlast = NoWrappedCall
  /\ touched = [k \in Keys |-> 0]
  /\ dlines = NoLines
  /\ dkeys = NULL
  /\ accessCount = [k \in Keys |-> 0]

FilledNext ==
  \/ \E call \in FilledCalls, renderThrows \in BOOLEAN : RenderFilled(call, renderThrows)
  \/ \E p \in 1..MaxFilled, unmountThrows \in BOOLEAN : Timeout(p, unmountThrows)

SpecFilled == InitFilled /\ [][FilledNext]_vars

(***************************************************************************)
(* index.ts: one invocation of the CLI.  The module sets the watchdog and  *)
(* parses the command line, which runs the action up to its first await;   *)
(* after that the event loop runs the timers in the order they fall due.   *)
(* Reading the text from stdin is taken to have returned.                  *)
(***************************************************************************)
DEFAULT_PALETTE == "grad-blue"

\* the command lines: --list-palettes, the text, the palette, --filled,
\* whether the renderer throws, and the time the synchronous part takes
CliArgs ==
  [list : BOOLEAN, text : {"", "hi"}, palette : {"sunset", "nope", "constructor"},
   filled : BOOLEAN,
   fails : BOOLEAN, took : {0, 20, 6000}]

\* process.exit(code): the process is gone, and its timers with it
Exit(code, done, by) ==
  /\ cpc' = "exited"
  /\ cexit' = code
  /\ ctimers' = {}
  /\ cout' = [cout EXCEPT !.done = done, !.by = by]

\* resolveColors(paletteArg) throws
PaletteRejected(paletteArg) ==
  resolveColors(NewLRU(paletteCacheSize), <<>>, <<"name", paletteArg>>).status # "ok"

\* program.parse(): the action, up to process.exit or its first await on a
\* pending promise
CliAction(args) ==
  /\ cpc = "parse"
  /\ cargs' = args
  /\ cnow' = cnow + args.took
  /\ IF args.list
     THEN Exit(0, "listed", "action")
     ELSE IF args.text = ""
     THEN Exit(1, "error", "action")
     ELSE IF PaletteRejected(args.palette) /\ args.palette # DEFAULT_PALETTE
     THEN Exit(1, "error", "action")
     ELSE IF args.filled
     THEN IF args.fails
          THEN Exit(1, "error", "action")
          ELSE /\ cpc' = "awaitFilled"
               /\ ctimers' = ctimers \cup { <<"ink", cnow + args.took + InkSettleMs>> }
               /\ UNCHANGED <<cexit, cout>>
     ELSE IF args.fails
     THEN Exit(1, "error", "action")
     ELSE Exit(0, "rendered", "action")
  /\ UNCHANGED otherThanCli

NextTimerLast == CHOOSE t \in ctimers : \A u \in ctimers : t[2] >= u[2]

\* the timer the event loop runs next: the one that falls due first
NextTimer == CHOOSE t \in ctimers : \A u \in ctimers : t[2] <= u[2]

\* the event loop runs the callback of the next timer
CliTimer(unmountThrows) ==
  /\ cpc \in {"awaitFilled", "exitPending"}
  /\ ctimers # {}
  /\ LET t == NextTimer
         at == IF t[2] > cnow THEN t[2] ELSE cnow
         fired == [cout EXCEPT !.fired = Append(@, t[1])]
     IN
     /\ cnow' = at
     /\ CASE t[1] = "ink" ->
               \* unmount(); resolve(): the action goes on after its await
               IF unmountThrows
               THEN /\ cpc' = "exited" /\ cexit' = 1 /\ ctimers' = {}
                    /\ cout' = [fired EXCEPT !.done = "error", !.by = "action"]
               ELSE /\ cpc' = "exitPending"
                    /\ ctimers' = (ctimers \ {t}) \cup { <<"exit", at + ExitDelayMs>> }
                    /\ cout' = [fired EXCEPT !.done = "rendered"]
                    /\ cexit' = cexit
          [] t[1] = "exit" ->
               /\ cpc' = "exited" /\ cexit' = 0 /\ ctimers' = {}
               /\ cout' = [fired EXCEPT !.by = "action"]
          [] t[1] = "watchdog" ->
               /\ cpc' = "exited" /\ cexit' = 1 /\ ctimers' = {}
               /\ cout' = [fired EXCEPT !.by = "watchdog"]
          [] OTHER ->
               \* the memory monitor: checkMemoryUsage, and the interval goes on
               /\ ctimers' = (ctimers \ {t}) \cup { <<"monitor", at + MonitorMs>> }
               /\ cout' = fired
               /\ UNCHANGED <<cpc, cexit>>
  /\ UNCHANGED cargs
  /\ UNCHANGED otherThanCli

\* SIGINT or SIGTERM arrives
CliSignal ==
  /\ cpc \in {"awaitFilled", "exitPending"}
  /\ Exit(0, cout.done, "signal")
  /\ UNCHANGED <<cargs, cnow>>
  /\ UNCHANGED otherThanCli

InitCli ==
  /\ lru = NewLRU(1)
  /\ last = NoOp
  /\ gets = 0
  /\ scen = NewScen
  /\ nops = 0
  /\ pre = lru
  /\ figletCache = NewLRU(figletCacheSize)
  /\ gradientCache = NewLRU(gradientCacheSize)
  /\ rin = NoArgs
  /\ rout = NoRender
  /\ seen = {}
  /\ nrender = 0
  /\ generated = {}
  /\ paletteCache = NewLRU(paletteCacheSize)
  /\ heap = <<>>
  /\ held = {}
  /\ pin = NULL
  /\ pret = NULL
  /\ npal = 0
  /\ cin = NULL
  /\ cret = NoColors
  /\ aopt = NoOptions
  /\ ac = NewAsciiCache(NoOptions)
  /\ now = 0
  /\ atouch = NoTouch
  /\ alast = NoAsciiOp
  /\ naops = 0
  /\ inkCache = NewLRU(inkCacheSize)
  /\ promises = <<>>
  /\ ilast = NoInkCall
  /\ nink = 0
  /\ stdout = <<>>
  /\ cpc = "parse"
  /\ cargs = NoCliArgs
  /\ cnow = 0
  /\ ctimers = LoadTimers
  /\ cexit = NoCode
  /\ cout = NoOutcome
  /\ nmem = 0
  /\ mcleared = NULL
  /\ fin = NoFilledCall
  /\ fret = NoFilled
  /\ nfill = 0
  /\ env = [size |-> UNDEFINED, ttl |-> UNDEFINED]
  /\ cfg = NULL
  /\ colorEnv = [name \in {"NO_COLOR", "FORCE_COLOR", "CI", "COLORTERM", "TERM_PROGRAM"} |-> UNDEFINED]
  /\ isTTY = "true"
  /\ colorDetectionCache = NULL
  /\ dateNow = 0
  /\ ulast = [seq |-> 0, variant |-> "none", options |-> [forceColor |-> FALSE, noColor |-> FALSE], result |-> FALSE]
  /\ ncolor = 0
  /\ wlast = NoWrappedCall
  /\ touched = [k \in Keys |-> 0]
  /\ dlines = NoLines
  /\ dkeys = NULL
  /\ accessCount = [k \in Keys |-> 0]

CliNext ==
  \/ \E args \in CliArgs : CliAction(args)
  \/ \E unmountThrows \in BOOLEAN : CliTimer(unmountThrows)
  \/ CliSignal

SpecCli == InitCli /\ [][CliNext]_vars

\* the action runs, and the event loop runs the timers that are due
SpecCliLive ==
  /\ SpecCli
  /\ WF_vars(\E args \in CliArgs : CliAction(args))
  /\ WF_vars(\E unmountThrows \in BOOLEAN : CliTimer(unmountThrows))

(***************************************************************************)
(* CacheManager: its four caches, used through its get and set methods,    *)
(* and the memory check that its interval timer runs.  Cached values are   *)
(* <<"string", s>> or <<"object", o>>, which is all the memory estimate    *)
(* looks at; the limit is maxMemoryMB in bytes, scaled down.               *)
(***************************************************************************)
maxMemoryBytes == 200

CacheNames == <<"ink", "gradient", "palette", "figlet">>

MemKeys == {"k1", "k2"}
\* a glyph block of 30 characters, and what the other caches hold
GlyphBlock == <<"string", "###  ###  ###  ###  ###  ###  ">>
MemValues ==
  [figlet |-> {GlyphBlock}, gradient |-> {<<"object", "ramp">>},
   palette |-> {<<"object", "stops">>}, ink |-> {<<"object", "promise">>}]

\* the manager's caches by name
Caches ==
  [ink |-> inkCache, gradient |-> gradientCache, palette |-> paletteCache,
   figlet |-> figletCache]

RECURSIVE SumOver(_, _)
SumOver(f, S) ==
  IF S = {} THEN 0
  ELSE LET x == CHOOSE y \in S : TRUE IN f[x] + SumOver(f, S \ {x})

\* LRUCache.estimateMemoryUsage
estimateMemoryUsage(c) ==
  SumOver([k \in DOMAIN c.cache |->
             Len(k) * 2
               + (IF c.cache[k].value[1] = "string" THEN Len(c.cache[k].value[2]) * 2
                  ELSE 100)
               + 64],
          DOMAIN c.cache)

\* CacheManager.getStats().totalMemoryUsage
totalMemoryUsage(cs) ==
  estimateMemoryUsage(cs.figlet) + estimateMemoryUsage(cs.gradient)
    + estimateMemoryUsage(cs.palette) + estimateMemoryUsage(cs.ink)

\* a.stats.hitRate - b.stats.hitRate < 0
RateLess(a, b) == a.num * b.den < b.num * a.den

\* [...].sort((a, b) => a.stats.hitRate - b.stats.hitRate)[0]: the sort is
\* stable, so among equal rates the first of the list stays first
LowestHitRate(cs) ==
  LET rate(i) == LRUGetStats(cs[CacheNames[i]]).hitRate
      first == CHOOSE i \in 1..Len(CacheNames) :
                 \A j \in 1..Len(CacheNames) :
                    /\ ~RateLess(rate(j), rate(i))
                    /\ j < i => RateLess(rate(i), rate(j))
  IN  CacheNames[first]

\* the caches after name's cache has become c
WithCache(name, c) ==
  /\ figletCache' = IF name = "figlet" THEN c ELSE figletCache
  /\ gradientCache' = IF name = "gradient" THEN c ELSE gradientCache
  /\ paletteCache' = IF name = "palette" THEN c ELSE paletteCache
  /\ inkCache' = IF name = "ink" THEN c ELSE inkCache

InitMem ==
  /\ lru = NewLRU(1)
  /\ last = NoOp
  /\ gets = 0
  /\ scen = NewScen
  /\ nops = 0
  /\ pre = lru
  /\ figletCache = NewLRU(figletCacheSize)
  /\ gradientCache = NewLRU(gradientCacheSize)
  /\ rin = NoArgs
  /\ rout = NoRender
  /\ seen = {}
  /\ nrender = 0
  /\ generated = {}
  /\ paletteCache = NewLRU(paletteCacheSize)
  /\ heap = <<>>
  /\ held = {}
  /\ pin = NULL
  /\ pret = NULL
  /\ npal = 0
  /\ cin = NULL
  /\ cret = NoColors
  /\ aopt = NoOptions
  /\ ac = NewAsciiCache(NoOptions)
  /\ now = 0
  /\ atouch = NoTouch
  /\ alast = NoAsciiOp
  /\ naops = 0
  /\ inkCache = NewLRU(inkCacheSize)
  /\ promises = <<>>
  /\ ilast = NoInkCall
  /\ nink = 0
  /\ stdout = <<>>
  /\ cpc = "parse"
  /\ cargs = NoCliArgs
  /\ cnow = 0
  /\ ctimers = LoadTimers
  /\ cexit = NoCode
  /\ cout = NoOutcome
  /\ nmem = 0
  /\ mcleared = NULL
  /\ fin = NoFilledCall
  /\ fret = NoFilled
  /\ nfill = 0
  /\ env = [size |-> UNDEFINED, ttl |-> UNDEFINED]
  /\ cfg = NULL
  /\ colorEnv = [name \in {"NO_COLOR", "FORCE_COLOR", "CI", "COLORTERM", "TERM_PROGRAM"} |-> UNDEFINED]
  /\ isTTY = "true"
  /\ colorDetectionCache = NULL
  /\ dateNow = 0
  /\ ulast = [seq |-> 0, variant |-> "none", options |-> [forceColor |-> FALSE, noColor |-> FALSE], result |-> FALSE]
  /\ ncolor = 0
  /\ wlast = NoWrappedCall
  /\ touched = [k \in Keys |-> 0]
  /\ dlines = NoLines
  /\ dkeys = NULL
  /\ accessCount = [k \in Keys |-> 0]

\* getFigletArt, getGradient, getPalette, getInkRender
ManagerGet(name, key) ==
  /\ nmem < MaxMemOps
  /\ WithCache(name, LRUGet(Caches[name], key).c)
  /\ nmem' = nmem + 1
  /\ UNCHANGED mcleared
  /\ UNCHANGED otherThanManager

\* setFigletArt, setGradient, setPalette, setInkRender
ManagerSet(name, key, value) ==
  /\ nmem < MaxMemOps
  /\ WithCache(name, LRUSet(Caches[name], key, value))
  /\ nmem' = nmem + 1
  /\ UNCHANGED mcleared
  /\ UNCHANGED otherThanManager

\* the interval's callback
CheckMemoryUsage ==
  /\ IF totalMemoryUsage(Caches) > maxMemoryBytes
     THEN LET name == LowestHitRate(Caches) IN
          /\ WithCache(name, LRUClear(Caches[name]))
          /\ mcleared' = name
     ELSE UNCHANGED <<figletCache, gradientCache, paletteCache, inkCache, mcleared>>
  /\ UNCHANGED nmem
  /\ UNCHANGED otherThanManager

MemNext ==
  \/ \E i \in 1..Len(CacheNames), key \in MemKeys : ManagerGet(CacheNames[i], key)
  \/ \E i \in 1..Len(CacheNames), key \in MemKeys :
        \E value \in MemValues[CacheNames[i]] : ManagerSet(CacheNames[i], key, value)
  \/ CheckMemoryUsage

SpecMem == InitMem /\ [][MemNext]_vars

\* the interval timer keeps running the memory check
SpecMemLive == SpecMem /\ WF_vars(CheckMemoryUsage)

SpecLRU == InitLRU /\ [][LruNext]_vars

SpecPalette == InitPalette /\ [][PaletteNext]_vars

SpecRender == InitRender /\ [][RenderNext]_vars

(***************************************************************************)
(* Claims about the stand-alone LRUCache.                                  *)
(***************************************************************************)

ScenDone == scen.ok /\ Len(scen.ins) = lru.maxSize + 1

ScenVictim ==
  IF scen.touched = scen.ins[1] /\ scen.at >= 2 THEN scen.ins[2] ELSE scen.ins[1]

C3_EvictionOrder ==
  ScenDone =>
    /\ DOMAIN lru.cache = Range(scen.ins) \ {ScenVictim}
    /\ last.op = "set" => last.evicted = {ScenVictim}
    /\ (scen.touched # NULL /\ scen.at >= 2) => LRUHas(lru, scen.touched)

\* maxSize = 2: two keys inserted, one of them read, a third inserted
C3_Witness ==
  ScenDone /\ scen.touched # NULL /\ scen.at >= 2 /\ scen.touched = scen.ins[1]

\* C3 as stated: with no get the first-inserted key is evicted; a key that
\* is older than another key at the last insertion and was read with get at
\* any time before that insertion survives it.
C3_Original ==
  ScenDone =>
    /\ scen.touched = NULL => DOMAIN lru.cache = Range(scen.ins) \ {scen.ins[1]}
    /\ (scen.touched # NULL /\ scen.touched # scen.ins[lru.maxSize])
          => LRUHas(lru, scen.touched)

\* C4: hits + misses is the number of get calls since construction or the
\* last clear; has, set, delete and getStats leave both counters as they
\* were; getStats().hitRate is hits/(hits+misses), and 0 when no get has
\* been counted.
C4_HitRateAccounting ==
  /\ lru.hits + lru.misses = gets
  /\ last.op \in {"has", "set", "delete", "getStats"} => Counters = last.before
  /\ last.op = "getStats" =>
        /\ last.ret.hits = lru.hits /\ last.ret.misses = lru.misses
        /\ last.ret.hitRate = IF gets = 0 THEN Zero ELSE Fraction(lru.hits, gets)

C4_Witness ==
  last.op = "getStats" /\ lru.hits >= 1 /\ lru.misses >= 1 /\ last.ret.hitRate.den = gets

\* C11: after every operation the cache holds at most maxSize entries; a set
\* of a new key into a full cache evicts exactly one entry before it returns
\* and leaves the cache full.
C11_SizeBound ==
  /\ MapSize(lru) <= lru.maxSize
  /\ (last.op = "set" /\ ~MapHas(pre, last.key) /\ MapSize(pre) = pre.maxSize) =>
        /\ Cardinality(last.evicted) = 1
        /\ MapSize(lru) = lru.maxSize

\* a set of a new key into a full cache of two entries
C11_Witness ==
  /\ last.op = "set" /\ ~MapHas(pre, last.key)
  /\ MapSize(pre) = pre.maxSize /\ pre.maxSize = 2

\* C12: a key has at most one live entry: the recency list from head holds
\* every key of the map exactly once.  A set of a key that is present
\* replaces its value and makes it most recently used, with the same keys
\* as before, the other values as before and nothing evicted; a set of an
\* absent key adds exactly that key.
RECURSIVE Walk(_, _, _)
Walk(c, k, n) ==
  IF k = NULL \/ n = 0 \/ k \notin DOMAIN c.cache THEN <<>>
  ELSE <<k>> \o Walk(c, c.cache[k].next, n - 1)

RecencyList(c) == Walk(c, c.head, MapSize(c) + 1)

C12_OneEntryPerKey ==
  /\ Len(RecencyList(lru)) = MapSize(lru)
  /\ Range(RecencyList(lru)) = DOMAIN lru.cache
  /\ last.op = "set" =>
        /\ MapHas(lru, last.key) /\ lru.cache[last.key].value = last.value
        /\ lru.head = last.key
        /\ IF MapHas(pre, last.key)
           THEN /\ DOMAIN lru.cache = DOMAIN pre.cache
                /\ last.evicted = {}
                /\ \A x \in DOMAIN pre.cache \ {last.key} :
                      lru.cache[x].value = pre.cache[x].value
           ELSE /\ (DOMAIN lru.cache) \ (DOMAIN pre.cache) = {last.key}
                /\ MapSize(lru) = MapSize(pre) + 1 - Cardinality(last.evicted)

\* a set that replaces the value of the least recently used of two keys
C12_Witness ==
  /\ last.op = "set" /\ MapHas(pre, last.key)
  /\ pre.cache[last.key].value # last.value
  /\ pre.tail = last.key /\ MapSize(pre) = 2

\* C13: after clear() the cache has no entry and both counters are 0: size
\* is 0, has(k) is false and get(k) misses for every key, and the cache is
\* in the state of a newly constructed cache of the same maxSize, so that
\* whatever follows behaves as it does on a new cache.
C13_Clear ==
  last.op = "clear" =>
    /\ LRUGetStats(lru).size = 0
    /\ lru.hits = 0 /\ lru.misses = 0
    /\ \A k \in Keys :
          /\ ~LRUHas(lru, k)
          /\ LRUGet(lru, k).ret = NULL
          /\ LRUGet(lru, k).c.misses = 1 /\ LRUGet(lru, k).c.hits = 0
    /\ lru = NewLRU(pre.maxSize)

\* a clear of a full cache of two entries that has counted a hit and a miss
C13_Witness ==
  /\ last.op = "clear" /\ MapSize(pre) = 2 /\ pre.maxSize = 2
  /\ pre.hits >= 1 /\ pre.misses >= 1

(***************************************************************************)
(* Claims about renderLogo.                                                *)
(***************************************************************************)
Rendered == rout.status # "none"

\* what renderLogo returns for the last call's arguments on empty caches
ColdRender ==
  renderLogo(NewLRU(figletCacheSize), NewLRU(gradientCacheSize),
             rin.text, rin.palette, rin.font, rin.direction)

RampCalls == SelectSeq(rout.calls, LAMBDA c : c[1] = "ramp")
FactoryCalls == SelectSeq(rout.calls, LAMBDA c : c[1] = "gradient")
BlockCalls == SelectSeq(rout.calls, LAMBDA c : c[1] = "multiline")
\* a line that is empty or all whitespace
BlankLine(line) == \A i \in 1..Len(line) : line[i] \in {" ", "\t"}
NonBlank(art) == SelectSeq(art, LAMBDA l : ~BlankLine(l))

\* C2: whatever renders and cache clears came before, renderLogo returns
\* what the computation on empty caches returns for the same arguments (the
\* same string, or the same error).
C2_CacheTransparency ==
  Rendered => rout.status = ColdRender.status /\ rout.out = ColdRender.out

\* C10: a cache key is computed from one input only: no two different
\* (text, font) pairs share a figlet key, no two different stop lists share a
\* gradient key, and a diagonal (stops, shift) key is no plain stop-list key.
SameOrigin(x, y) == x[1] = y[1] /\ x[2] = y[2] /\ x[3] * y[4] = y[3] * x[4]

C10_KeysInjective ==
  \A a \in seen : \A b \in seen :
     (a[1] = b[1] /\ a[2] = b[2]) => SameOrigin(a[3], b[3])

\* C5 (as amended): in the horizontal and diagonal directions every blank
\* line of the glyph block is at the same index of the output, unchanged,
\* and no ramp function is called with a blank line; in the vertical
\* direction the whole block, blank lines included, goes to the ramp's
\* multiline in one call and the output is what that call returns.
C5_BlankLines ==
  /\ (rout.status = "ok" /\ rin.direction \in {"horizontal", "diagonal"}) =>
        /\ Len(rout.out) = Len(rout.art)
        /\ \A i \in 1..Len(rout.art) :
              BlankLine(rout.art[i]) => rout.out[i] = rout.art[i]
        /\ \A c \in Range(RampCalls) : ~BlankLine(c[3])
        /\ BlockCalls = <<>>
  /\ (rout.status = "ok" /\ rin.direction = "vertical") =>
        /\ RampCalls = <<>>
        /\ Len(BlockCalls) = 1 /\ BlockCalls[1][3] = rout.art
        /\ rout.out = ApplyMultiline(BlockCalls[1], rout.art)

\* a diagonal render of a block with an empty and an all-whitespace line
C5_Witness ==
  /\ rout.status = "ok" /\ rin.direction = "diagonal"
  /\ \E i \in 1..Len(rout.art) : rout.art[i] = <<>>
  /\ \E i \in 1..Len(rout.art) : rout.art[i] # <<>> /\ BlankLine(rout.art[i])
  /\ RampCalls # <<>>

\* C5 as stated: in all three directions no blank line is passed to a ramp
\* function, alone or as part of a block.
C5_Original ==
  (rout.status = "ok" /\ rout.art # EmptyString) =>
    /\ \A c \in Range(RampCalls) : ~BlankLine(c[3])
    /\ \A c \in Range(BlockCalls) : \A i \in 1..Len(c[3]) : ~BlankLine(c[3][i])

\* C6: in a diagonal render of a block of n lines with the stop list stops
\* of length L, the ramp applied to the line at row i (rows counted from 0,
\* blank lines included) is built from the list whose element j is
\* stops[floor(j + (i/n)*L) mod L]; floor(j + i*L/n) = (j*n + i*L) div n.
ShiftedStops(stops, i, n) ==
  [j \in 1..Len(stops) |->
     stops[((((j - 1) * n + i * Len(stops)) \div n) % Len(stops)) + 1]]

C6_DiagonalShift ==
  (rout.status = "ok" /\ rin.direction = "diagonal") =>
     \A c \in Range(RampCalls) : c[2] = ShiftedStops(rin.palette, c[4], Len(rout.art))

\* C7: a horizontal render calls the ramp once for each non-blank line of the
\* glyph block, in order, with that line, and for no other line; the output
\* has as many lines as the block, each at its place: a blank line as it is,
\* any other line as the ramp returned it.
C7_Horizontal ==
  (rout.status = "ok" /\ rin.direction = "horizontal") =>
     /\ Len(RampCalls) = Len(NonBlank(rout.art))
     /\ \A i \in 1..Len(RampCalls) : RampCalls[i][3] = NonBlank(rout.art)[i]
     /\ Len(rout.out) = Len(rout.art)
     /\ \A i \in 1..Len(rout.art) :
           IF BlankLine(rout.art[i]) THEN rout.out[i] = rout.art[i]
           ELSE rout.out[i][1] = "colored" /\ rout.out[i][3] = rout.art[i]

\* a horizontal render of a block with two blank and two non-blank lines
C7_Witness ==
  /\ rout.status = "ok" /\ rin.direction = "horizontal"
  /\ Len(RampCalls) = 2 /\ Len(rout.art) = 4

\* C8 (as amended): when the glyph generator is called for empty text and
\* returns the empty string, and the stop list is not empty (no ramp can be
\* built from an empty one), renderLogo returns the empty string without an
\* error and calls no ramp on a line, in every direction and whatever the
\* caches hold; it calls the gradient factory at most once, with the stop
\* list, and in the vertical direction (only) it calls the ramp's multiline
\* once, with the empty string.
EmptyGenerated ==
  /\ Rendered /\ rin.text = "" /\ rin.palette # <<>>
  /\ <<"figlet", rin.text, rin.font>> \in Range(rout.calls)
  /\ textSync(rin.text, rin.font) = [err |-> "none", art |-> EmptyString]

C8_EmptyText ==
  EmptyGenerated =>
     /\ rout.status = "ok" /\ rout.out = EmptyString
     /\ RampCalls = <<>>
     /\ Len(FactoryCalls) <= 1
     /\ \A c \in Range(FactoryCalls) : c[2] = rin.palette
     /\ IF rin.direction = "vertical"
        THEN Len(BlockCalls) = 1 /\ BlockCalls[1][3] = EmptyString
        ELSE BlockCalls = <<>>

\* empty text rendered diagonally on a warm gradient cache
C8_Witness ==
  EmptyGenerated /\ rin.direction = "diagonal" /\ FactoryCalls = <<>> /\ nrender = 2

\* C8 as stated: rendering empty text returns the empty string without an
\* error and calls neither the gradient factory nor a ramp.
C8_Original ==
  EmptyGenerated =>
     /\ rout.status = "ok" /\ rout.out = EmptyString
     /\ RampCalls = <<>> /\ FactoryCalls = <<>> /\ BlockCalls = <<>>

\* the glyph generator throws on the last call's text and font
GeneratorFails == textSync(rin.text, rin.font).err # "none"

\* the error classes that stand for an invalid palette
InvalidPaletteClass == {"InvalidPalette", "PaletteError"}

\* C16: a render with an explicit empty colour list fails with an
\* InvalidPalette-class error and produces no output, in every direction.
C16_EmptyPaletteRejected ==
  (Rendered /\ rin.palette = <<>> /\ ~GeneratorFails) =>
     rout.status \in InvalidPaletteClass /\ rout.out = <<>>

C18_GenerateOnce ==
  (Rendered /\ rout.known) => <<"figlet", rin.text, rin.font>> \notin Range(rout.calls)

\* the last call was a diagonal render that returned
DiagonalDone == rout.status = "ok" /\ rin.direction = "diagonal"

\* the diagonal cache keys of the non-blank lines of the block
DiagonalKeys ==
  { getDiagonalCacheKey(rin.palette, (i - 1) * Len(rin.palette), Len(rout.art)) :
      i \in { j \in 1..Len(rout.art) : ~BlankLine(rout.art[j]) } }

C9_IndependentCopies ==
  pret # NULL => pret[2] = PALETTES[pin]

\* C15: resolveColors hands an array argument back as the same array, gives
\* the table's colours for a name of the table, and for every other name,
\* the empty string included, throws Error('Unknown palette: <name>').
C15_ResolveColors ==
  cin # NULL =>
    IF cin[1] = "ref"
    THEN cret.status = "ok" /\ cret.ret = cin
    ELSE IF cin[2] \in DOMAIN PALETTES
    THEN cret.status = "ok" /\ cret.value = PALETTES[cin[2]]
    ELSE cret.status = "Error" /\ cret.message = "Unknown palette: " \o cin[2]

(***************************************************************************)
(* Claims about AsciiCache.                                                *)
(***************************************************************************)

\* C14: an entry that was last set or read with a hit more than maxAge ago
\* is unreadable: get returns undefined and counts a miss, has returns
\* false.  Unless the cache was constructed with updateAgeOnGet: false, a
\* get less than maxAge after the entry was last set or read returns the
\* value set and counts a hit, however long ago the entry was set.
RefreshOnAccess ==
  "updateAgeOnGet" \in DOMAIN aopt => aopt.updateAgeOnGet

C14_Expiry ==
  /\ (alast.op = "get" /\ alast.age > aopt.maxAge) =>
        alast.ret = UNDEFINED /\ alast.counted = "miss"
  /\ (alast.op = "has" /\ alast.age > aopt.maxAge) => alast.ret = FALSE
  /\ (alast.op = "get" /\ RefreshOnAccess /\ alast.age # NoTime /\ alast.age < aopt.maxAge) =>
        alast.ret = alast.expect /\ alast.counted = "hit"

\* under the default policy, a hit on an entry that was set more than
\* maxAge ago and read in between
C14_Witness ==
  /\ alast.op = "get" /\ "updateAgeOnGet" \notin DOMAIN aopt
  /\ alast.ret # UNDEFINED /\ alast.age < aopt.maxAge
  /\ now - ac.store[alast.key].start = 0
  /\ now > aopt.maxAge /\ naops = 3

(***************************************************************************)
(* Claims about renderInkLogo.                                             *)
(***************************************************************************)

\* C20: a renderInkLogo call mounts the logo (Ink's render is called, and
\* unless it throws the logo is on the screen and the promise pending when
\* the call returns); the promise of a mounted logo is settled only after
\* unmount has been called, and unmount is called exactly once.
C20_MountThenUnmount ==
  /\ (ilast.key # NULL) => ilast.rendered
  /\ (ilast.key # NULL /\ ~ilast.threw) => ~ilast.settled
  /\ \A p \in 1..Len(promises) :
        /\ promises[p].unmounts <= 1
        /\ (promises[p].shown /\ Settled(promises[p])) => promises[p].unmounts = 1
        /\ promises[p].state = "resolved" => promises[p].unmounts = 1

\* every promise renderInkLogo has made or returned is settled in the end
InkEventuallySettles ==
  \A p \in 1..MaxInk : [](p <= Len(promises) => <>(p <= Len(promises) /\ Settled(promises[p])))

\* C21: the Ink render is performed once for every renderInkLogo call, also
\* when an earlier call had the same text and palette: as many renders as calls.
C21_RenderPerCall == Len(promises) = nink

\* the terminal reset sequences: SGR reset, cursor show, clear to end of line
ResetSequences == << "ESC[0m", "ESC[?25h", "ESC[K" >>

\* the strings of seq occur in out, in that order, after position from
RECURSIVE WrittenInOrder(_, _, _)
WrittenInOrder(out, from, seq) ==
  IF seq = <<>> THEN TRUE
  ELSE \E i \in (from + 1)..Len(out) :
          out[i] = Head(seq) /\ WrittenInOrder(out, i, Tail(seq))

\* C22: once the promise of a renderInkLogo call is resolved, the reset
\* sequences ESC[0m, ESC[?25h, ESC[K have been written to stdout, in this
\* order, since the call was made.
C22_ResetSequences ==
  (ilast.key # NULL /\ promises[ilast.promise[2]].state = "resolved") =>
     WrittenInOrder(stdout, ilast.start, ResetSequences)

(***************************************************************************)
(* Claims about the CLI process.                                           *)
(***************************************************************************)

\* the invocation did what it was asked to do
CliSucceeded == cout.done \in {"rendered", "listed"}
\* the synchronous part left time for the settle delay and the exit delay
\* before the watchdog
CliInTime == cargs.took + InkSettleMs + ExitDelayMs < WatchdogMs

CliSafe ==
  /\ (cpc = "exited") = (cexit # NoCode)
  /\ cpc = "exited" =>
        /\ cexit \in {0, 1}
        /\ cout.done = "error" => cexit = 1
        /\ cout.by = "watchdog" => cexit = 1 /\ ~CliInTime
        /\ (CliSucceeded /\ cout.by = "action") => cexit = 0
        /\ (cexit = 0 /\ cout.by # "signal") => CliSucceeded
        /\ (cout.by # "signal" /\ CliInTime) => cout.done # "none"
  /\ cpc # "exited" => <<"watchdog", WatchdogMs>> \in ctimers
  /\ \A i \in 1..Len(cout.fired) : cout.fired[i] # "monitor"

C24_MemoryBounded == <>[](totalMemoryUsage(Caches) <= maxMemoryBytes)

(***************************************************************************)
(* Claims about renderFilled.                                              *)
(***************************************************************************)
Negative(letterSpacing) == letterSpacing[1] = "number" /\ letterSpacing[2] < 0

\* C25: a call of renderFilled with a negative letterSpacing is rejected
\* with 'Letter spacing must be 0 or greater' and touches neither the
\* palette cache nor the Ink renderer; a call with letterSpacing 0 or
\* undefined is never rejected with that message.
C25_LetterSpacing ==
  [][nfill' # nfill =>
       /\ Negative(fin'.letterSpacing) =>
            /\ fret'.status = "Error" /\ fret'.message = SpacingMessage
            /\ UNCHANGED <<paletteCache, heap, inkVars>>
       /\ fin'.letterSpacing \in { <<"undefined">>, <<"number", 0>> } =>
            fret'.message # SpacingMessage]_vars

\* a negative letter spacing was rejected after an earlier call had rendered
C25_Witness ==
  /\ Negative(fin.letterSpacing)
  /\ fret.status = "Error"
  /\ nink > 0

(***************************************************************************)
(* Claims about the configuration of the global cache.                     *)
(***************************************************************************)
InRange(x, lo, hi) == x # NaN /\ x[2] >= lo /\ x[2] <= hi

\* C26: whatever OHMYLOGO_CACHE_SIZE and OHMYLOGO_CACHE_TTL hold, the
\* configuration has maxSize in 10..10000 and maxAge in 60000..3600000.
C26_Clamped ==
  cfg # NULL => InRange(cfg[1], 10, 10000) /\ InRange(cfg[2], 60000, 3600000)

(***************************************************************************)
(* Claims about colour detection.                                          *)
(***************************************************************************)
\* the precedence: forceColor, noColor, NO_COLOR, FORCE_COLOR, CI with
\* COLORTERM or TERM_PROGRAM, then the terminal
Precedence(options, e, tty) ==
  CASE options.forceColor -> TRUE
    [] ~options.forceColor /\ options.noColor -> FALSE
    [] OTHER ->
         CASE e["NO_COLOR"] \notin {UNDEFINED, ""} -> FALSE
           [] OTHER ->
                CASE e["FORCE_COLOR"] \notin {UNDEFINED, ""} -> TRUE
                  [] OTHER ->
                       IF /\ e["CI"] \notin {UNDEFINED, ""}
                          /\ \/ e["COLORTERM"] \notin {UNDEFINED, ""}
                             \/ e["TERM_PROGRAM"] \notin {UNDEFINED, ""}
                       THEN TRUE
                       ELSE tty = "true"

\* C27: every call of shouldUseColor returns what the precedence gives for
\* its options and the environment and terminal at the time of the call.
C27_Precedence ==
  [][ulast'.seq # ulast.seq => ulast'.result = Precedence(ulast'.options, colorEnv, isTTY)]_vars

\* the same, of the calls of the variant without the cache
C27_PlainPrecedence ==
  [][(ulast'.seq # ulast.seq /\ ulast'.variant = "plain")
       => ulast'.result = Precedence(ulast'.options, colorEnv, isTTY)]_vars

(***************************************************************************)
(* Claims about withCache.                                                 *)
(***************************************************************************)
\* the string the cache holds for the key, UNDEFINED if it holds none
CachedString(c, cacheKey, t) ==
  IF AsciiHas(c, cacheKey, t) THEN c.store[generateKey(cacheKey)].value ELSE UNDEFINED

\* C28: a call of a wrapped function whose key has a cached string returns
\* that string without executing the function; any other call executes it
\* and returns its result, which is cached if and only if it is a string.
C28_WithCache ==
  [][wlast'.seq # 0 =>
       LET before == CachedString(ac, wlast'.key, now)
           after == CachedString(ac', wlast'.key, now)
       IN  IF before # UNDEFINED
           THEN ~wlast'.executed /\ wlast'.ret = <<"string", before>> /\ after = before
           ELSE /\ wlast'.executed /\ wlast'.ret = wlast'.result
                /\ after = IF wlast'.result[1] = "string" THEN wlast'.result[2]
                           ELSE UNDEFINED]_vars

\* a call returned the cached string of an earlier call, whose function
\* would have returned something else now
C28_Witness ==
  /\ wlast.seq > 0 /\ ~wlast.executed
  /\ wlast.ret[1] = "string" /\ wlast.ret # wlast.result

\* a call whose function returned an object, after an earlier operation
C28_ObjectWitness ==
  wlast.seq > 1 /\ wlast.executed /\ wlast.result[1] = "object"

(***************************************************************************)
(* Claims about eviction.                                                  *)
(***************************************************************************)
\* C29: a set that inserts a new key into a full cache removes exactly the
\* entry whose last set or get hit is the oldest, leaves every other entry
\* with its value, and leaves the new key in the cache with the value set.
C29_EvictsOldest ==
  [][(/\ nops' # nops /\ last'.op = "set"
      /\ ~MapHas(lru, last'.key)
      /\ MapSize(lru) >= lru.maxSize)
       => \E victim \in DOMAIN lru.cache :
            /\ \A other \in (DOMAIN lru.cache) \ {victim} : touched[victim] < touched[other]
            /\ DOMAIN lru'.cache = ((DOMAIN lru.cache) \ {victim}) \cup {last'.key}
            /\ \A other \in (DOMAIN lru.cache) \ {victim} :
                  lru'.cache[other].value = lru.cache[other].value
            /\ lru'.cache[last'.key].value = last'.value]_vars

\* the set of a new key k3 into a full cache evicted k1 and kept k2, after a
\* history that holds reads and is more than insertions and one read
C29_Witness ==
  /\ last.op = "set" /\ last.key = "k3" /\ last.evicted = {"k1"}
  /\ MapHas(lru, "k2")
  /\ scen = NoScen
  /\ gets > 0

(***************************************************************************)
(* Claims about the rounding of the diagonal shift.                        *)
(***************************************************************************)

\* C30: two lines whose shifts round to the same cache key have equal
\* shifted stop lists.
C30_RoundingHarmless ==
  (dkeys # NULL /\ dkeys[1] = dkeys[2]) => dkeys[3] = dkeys[4]

(***************************************************************************)
(* Claims about delete and the read-only operations.                       *)
(***************************************************************************)
Without(seq, k) == SelectSeq(seq, LAMBDA x : x # k)

\* the entry evictLRU would remove, NULL in an empty cache
NextVictim(c) ==
  IF RecencyList(c) = <<>> THEN NULL ELSE RecencyList(c)[Len(RecencyList(c))]

\* C31: delete(k) returns whether k was present and leaves the counters
\* alone.  If k was present it is gone afterwards, the size is one less, and
\* the other entries keep their values and their recency order, so the next
\* eviction victim is the one it was unless that was k.  If k was absent
\* the cache is as it was.
C31_Delete ==
  last.op = "delete" =>
    /\ last.ret = MapHas(pre, last.key)
    /\ ~LRUHas(lru, last.key)
    /\ lru.hits = pre.hits /\ lru.misses = pre.misses
    /\ IF MapHas(pre, last.key)
       THEN /\ MapSize(lru) = MapSize(pre) - 1
            /\ DOMAIN lru.cache = (DOMAIN pre.cache) \ {last.key}
            /\ \A x \in DOMAIN lru.cache : lru.cache[x].value = pre.cache[x].value
            /\ RecencyList(lru) = Without(RecencyList(pre), last.key)
            /\ lru.tail = NextVictim(lru)
            /\ NextVictim(pre) # last.key => NextVictim(lru) = NextVictim(pre)
       ELSE lru = pre

\* the middle one of three entries was deleted
C31_Witness ==
  /\ last.op = "delete" /\ last.ret
  /\ MapSize(pre) = 3 /\ pre.tail # last.key /\ pre.head # last.key

\* the least recently used of two entries was deleted
C31_TailWitness ==
  /\ last.op = "delete" /\ last.ret
  /\ MapSize(pre) = 2 /\ pre.tail = last.key

\* x comes before y in the recency list of c
\* the keys the last operation moved ahead of a key they were behind
Promoted ==
  LET a == RecencyList(pre)
      b == RecencyList(lru)
      both == Range(a) \cap Range(b)
      pa == [x \in both |-> CHOOSE i \in 1..Len(a) : a[i] = x]
      pb == [x \in both |-> CHOOSE i \in 1..Len(b) : b[i] = x]
  IN  {x \in both : \E y \in both : pa[y] < pa[x] /\ pb[x] < pb[y]}

\* C32: has, getStats and getHotKeys leave entries, recency order and
\* counters as they were; a get miss only adds one to the miss counter; an
\* entry is moved ahead of another only by a get hit or a set of its key,
\* which makes it the most recently used.
C32_ReadOnly ==
  /\ last.op \in {"has", "getStats", "getHotKeys"} => lru = pre
  /\ (last.op = "get" /\ ~MapHas(pre, last.key)) =>
        lru = [pre EXCEPT !.misses = @ + 1]
  /\ (last.op = "get" /\ MapHas(pre, last.key)) => lru.head = last.key
  /\ Promoted # {} =>
        /\ last.op \in {"get", "set"}
        /\ Promoted = {last.key}
        /\ lru.head = last.key

\* a get missed in a cache that holds two entries and has counted a hit
C32_Witness ==
  /\ last.op = "get" /\ ~MapHas(pre, last.key)
  /\ MapSize(pre) = 2 /\ pre.hits >= 1

\* getHotKeys on two entries with different access counts
C32_HotKeysWitness ==
  /\ last.op = "getHotKeys"
  /\ {e[2] : e \in last.ret} = {1, 2}

\* a get hit moved the least recently used of three entries to the front
C32_PromotedWitness ==
  /\ last.op = "get" /\ MapSize(pre) = 3 /\ pre.tail = last.key
  /\ Promoted = {last.key}

(***************************************************************************)
(* Claims about the structure of the cache.                                *)
(***************************************************************************)
\* C36: the recency list and the map agree: the list from head holds each
\* mapped key exactly once and ends at tail, head has no prev and tail no
\* next, next and prev are inverse to each other, and head and tail are
\* null exactly when the map is empty.
C36_ListAndMap ==
  LET list == RecencyList(lru) IN
  /\ Len(list) = MapSize(lru)
  /\ Range(list) = DOMAIN lru.cache
  /\ (lru.head = NULL) = (MapSize(lru) = 0)
  /\ (lru.tail = NULL) = (MapSize(lru) = 0)
  /\ MapSize(lru) > 0 =>
        /\ MapHas(lru, lru.head) /\ MapHas(lru, lru.tail)
        /\ lru.head = list[1] /\ lru.tail = list[Len(list)]
        /\ lru.cache[lru.head].prev = NULL
        /\ lru.cache[lru.tail].next = NULL
  /\ \A k \in DOMAIN lru.cache :
        /\ lru.cache[k].next # NULL =>
              MapHas(lru, lru.cache[k].next) /\ lru.cache[lru.cache[k].next].prev = k
        /\ lru.cache[k].prev # NULL =>
              MapHas(lru, lru.cache[k].prev) /\ lru.cache[lru.cache[k].prev].next = k

\* three entries, the middle one of which a get has just moved to the front
C36_Witness ==
  /\ MapSize(lru) = 3
  /\ last.op = "get" /\ MapHas(pre, last.key) /\ pre.head # last.key /\ pre.tail # last.key

(***************************************************************************)
(* Claims about a renderLogo call that fails.                              *)
(***************************************************************************)
\* the call made the glyph generator run, and it threw
GeneratorThrew(text, font, calls) ==
  <<"figlet", text, font>> \in Range(calls) /\ textSync(text, font).err # "none"

\* the call made the gradient factory run on its palette, and it threw
FactoryThrew(palette, calls) ==
  <<"gradient", palette, NoRow>> \in Range(calls) /\ gradient(palette)[1] = "throw"

\* every entry of old is in new with the value it had
KeepsEntries(old, new) ==
  \A k \in DOMAIN old.cache : MapHas(new, k) /\ new.cache[k].value = old.cache[k].value

\* the collaborators the same call would run on the caches as they are now
RetryCalls(fc, gc, in) ==
  Range(renderLogo(fc, gc, in.text, in.palette, in.font, in.direction).calls)

\* C33: a renderLogo call that fails stores nothing for the computation that
\* failed.  When the glyph generator threw, the figlet cache holds no entry
\* for the call's (text, font) and no new entry at all; when the gradient
\* factory threw, the gradient cache holds no entry for the palette's key and
\* no new entry at all; every entry that either cache held before the call is
\* still there with its value; and the same call made again runs the
\* generator, or the factory, again.
C33_FailureStoresNothing ==
  [][(nrender' = nrender + 1 /\ rout'.status # "ok") =>
       /\ GeneratorThrew(rin'.text, rin'.font, rout'.calls)
             \/ FactoryThrew(rin'.palette, rout'.calls)
       /\ KeepsEntries(figletCache, figletCache')
       /\ KeepsEntries(gradientCache, gradientCache')
       /\ DOMAIN gradientCache'.cache = DOMAIN gradientCache.cache
       /\ GeneratorThrew(rin'.text, rin'.font, rout'.calls) =>
             /\ ~MapHas(figletCache', getFigletCacheKey(rin'.text, rin'.font))
             /\ DOMAIN figletCache'.cache = DOMAIN figletCache.cache
             /\ <<"figlet", rin'.text, rin'.font>>
                   \in RetryCalls(figletCache', gradientCache', rin')
       /\ FactoryThrew(rin'.palette, rout'.calls) =>
             /\ ~MapHas(gradientCache', getGradientCacheKey(rin'.palette))
             /\ <<"gradient", rin'.palette, NoRow>>
                   \in RetryCalls(figletCache', gradientCache', rin')
     ]_vars

\* the generator threw on the second call, with entries cached by the first
C33_Witness ==
  /\ nrender = 2 /\ rout.status = "FontError"
  /\ GeneratorThrew(rin.text, rin.font, rout.calls)
  /\ MapSize(figletCache) = 1 /\ MapSize(gradientCache) >= 1

\* the factory threw on the second call, after the glyph block of a text not
\* rendered before had been cached
C33_FactoryWitness ==
  /\ nrender = 2 /\ rout.status = "Error"
  /\ FactoryThrew(rin.palette, rout.calls)
  /\ MapSize(figletCache) = 2 /\ MapSize(gradientCache) >= 1

(***************************************************************************)
(* Claims about renderInkLogo calls that follow or overlap one another.    *)
(***************************************************************************)
\* the step is a renderInkLogo call that returned a promise found in the cache
ReturnsCached == nink' = nink + 1 /\ ~ilast'.rendered

\* C34: a renderInkLogo call never returns an earlier call's promise that was
\* rejected because mount or unmount threw: after a rejection, the next call
\* with the same text and palette attempts a new render.
C34_RetryAfterRejection ==
  [][ReturnsCached => promises[ilast'.promise[2]].state # "rejected"]_vars

\* the step is a renderInkLogo call
InkCallStep == nink' = nink + 1

\* the renders of this text and palette that are under way: the promise was
\* made, mount did not throw and the timer has not run yet
Overlapping(args) ==
  {p \in 1..Len(promises) : promises[p].state = "pending" /\ promises[p].args = args}

\* each promise is settled by at most one unmount, a resolved one by exactly one
UnmountedOnce ==
  \A p \in 1..Len(promises) :
     /\ promises[p].unmounts <= 1
     /\ promises[p].state = "resolved" => promises[p].unmounts = 1

\* C35 as stated: a renderInkLogo call made while a render of the same text
\* and palette is under way mounts nothing and returns that render's promise.
C35_Original ==
  [][InkCallStep =>
       \A p \in Overlapping(ilast'.args) :
          ~ilast'.rendered /\ ilast'.promise = <<"promise", p>>]_vars

\* C35: a renderInkLogo call made while a render of the same text and palette
\* is under way, with no clearInkCache since that render began, mounts
\* nothing and returns that render's promise, which one unmount settles for
\* both callers; a call never returns the promise of another text or
\* palette, and a call whose text and palette have not been rendered before
\* mounts its own instance and leaves the renders under way as they are.
C35_Overlap ==
  /\ []UnmountedOnce
  /\ [][InkCallStep =>
          /\ \A p \in Overlapping(ilast'.args) :
                ~promises[p].cleared =>
                   /\ ~ilast'.rendered /\ ilast'.promise = <<"promise", p>>
                   /\ promises' = promises /\ stdout' = stdout
          /\ promises'[ilast'.promise[2]].args = ilast'.args
          /\ (\A p \in 1..Len(promises) : promises[p].args # ilast'.args) =>
                /\ ilast'.rendered
                /\ ilast'.promise = <<"promise", Len(promises) + 1>>
                /\ \A p \in 1..Len(promises) : promises'[p] = promises[p]
     ]_vars

\* the second call was made while the first call's logo was mounted, and the
\* one unmount has resolved the promise both hold
C35_Witness ==
  /\ nink = 2 /\ Len(promises) = 1
  /\ ~ilast.rendered /\ ~ilast.settled
  /\ promises[1].state = "resolved" /\ promises[1].unmounts = 1

\* two logos of different texts are mounted at once
C35_OtherKeyWitness ==
  /\ Len(promises) = 2
  /\ promises[1].state = "pending" /\ promises[2].state = "pending"
  /\ promises[1].args # promises[2].args

====
